---- MODULE Spec2Model ----
(***************************************************************************)
(* BRK.B valuation dashboard: the React component App (src/App.tsx and its *)
(* other revisions) together with the service functions of                 *)
(* services/geminiService.ts.                                              *)
(*                                                                         *)
(* The external model endpoint is an oracle: each request settles with an  *)
(* outcome (a parseable body, a transport rejection, or an unparseable     *)
(* body) chosen nondeterministically.                                      *)
(*                                                                         *)
(* JavaScript numbers are IEEE-754 binary64 values: every arithmetic       *)
(* operation and every decimal literal is rounded to the nearest double,   *)
(* ties to even, with the non-finite values Infinity and NaN.              *)
(***************************************************************************)
EXTENDS Integers, Sequences, FiniteSets, Bags, TLC

(***************************************************************************)
(* Numbers.  A JavaScript number is an IEEE-754 binary64 value.  The       *)
(* finite ones are held as [k |-> "fin", hi, lo, e], the value             *)
(* (hi * 2^28 + lo) * 2^e with a significand below 2^53: normal numbers    *)
(* have a significand of exactly 53 bits, subnormal ones e = -1074, and    *)
(* zero is the significand 0 with e = -1074.  Every operation rounds its   *)
(* exact result to the nearest such value, ties to even.  The field neg    *)
(* holds the sign, also of a zero and of Infinity.                         *)
(***************************************************************************)
RECURSIVE Pow2(_)
Pow2(k) == IF k = 0 THEN 1 ELSE 2 * Pow2(k - 1)

RECURSIVE Pow10(_)
Pow10(k) == IF k = 0 THEN 1 ELSE 10 * Pow10(k - 1)

\* naturals of any size are little-endian sequences of limbs below 2^14
\* without a leading zero limb
Limb == 16384

\* the base of the two halves hi, lo of a significand
Half == 268435456

RECURSIVE BTrim(_)
BTrim(a) == IF a # << >> /\ a[Len(a)] = 0 THEN BTrim(SubSeq(a, 1, Len(a) - 1)) ELSE a

RECURSIVE BOfInt(_)
BOfInt(i) == IF i = 0 THEN << >> ELSE <<i % Limb>> \o BOfInt(i \div Limb)

RECURSIVE BToInt(_)
BToInt(a) == IF a = << >> THEN 0 ELSE a[1] + Limb * BToInt(Tail(a))

LimbAt(a, i) == IF i \in DOMAIN a THEN a[i] ELSE 0

RECURSIVE BAddFrom(_, _, _, _)
BAddFrom(a, b, i, c) ==
  IF i > Len(a) /\ i > Len(b) THEN (IF c = 0 THEN << >> ELSE <<c>>)
  ELSE LET x == LimbAt(a, i) + LimbAt(b, i) + c
       IN <<x % Limb>> \o BAddFrom(a, b, i + 1, x \div Limb)

BAdd(a, b) == BAddFrom(a, b, 1, 0)

RECURSIVE BSubFrom(_, _, _, _)
BSubFrom(a, b, i, c) ==
  IF i > Len(a) THEN << >>
  ELSE LET x == a[i] - LimbAt(b, i) - c
       IN <<(x + Limb) % Limb>> \o BSubFrom(a, b, i + 1, IF x < 0 THEN 1 ELSE 0)

\* a - b for a >= b
BSub(a, b) == BTrim(BSubFrom(a, b, 1, 0))

RECURSIVE BCmpFrom(_, _, _)
BCmpFrom(a, b, i) ==
  IF i = 0 THEN 0
  ELSE IF a[i] # b[i] THEN (IF a[i] < b[i] THEN -1 ELSE 1)
  ELSE BCmpFrom(a, b, i - 1)

\* -1, 0 or 1 as a is below, equal to or above b
BCmp(a, b) ==
  IF Len(a) # Len(b) THEN (IF Len(a) < Len(b) THEN -1 ELSE 1)
  ELSE BCmpFrom(a, b, Len(a))

RECURSIVE BMulSmallFrom(_, _, _, _)
BMulSmallFrom(a, k, i, c) ==
  IF i > Len(a) THEN BOfInt(c)
  ELSE LET x == a[i] * k + c
       IN <<x % Limb>> \o BMulSmallFrom(a, k, i + 1, x \div Limb)

\* a * k for k below 2^16
BMulSmall(a, k) == IF k = 0 THEN << >> ELSE BMulSmallFrom(a, k, 1, 0)

RECURSIVE BMul(_, _)
BMul(a, b) ==
  IF a = << >> \/ b = << >> THEN << >>
  ELSE LET Raised(rest) == IF rest = << >> THEN << >> ELSE <<0>> \o rest
       IN BAdd(BMulSmall(a, b[1]), Raised(BMul(a, Tail(b))))

\* 2^n
BPow2(n) == [i \in 1..(n \div 14) |-> 0] \o <<Pow2(n % 14)>>

\* a * 2^n
BShl(a, n) ==
  IF a = << >> THEN << >>
  ELSE [i \in 1..(n \div 14) |-> 0] \o BMulSmall(a, Pow2(n % 14))

\* a div 2^n
BShr(a, n) ==
  LET Limbs(w, p, q) ==
        BTrim([i \in 1..(Len(a) - w) |-> (a[i + w] \div p) + (LimbAt(a, i + w + 1) % p) * q])
  IN Limbs(n \div 14, Pow2(n % 14), Pow2(14 - (n % 14)))

\* a mod 2^n
BLow(a, n) ==
  LET w == n \div 14
      top == IF Len(a) <= w THEN Len(a) ELSE w + 1
  IN BTrim([i \in 1..top |-> IF i <= w THEN a[i] ELSE a[i] % Pow2(n % 14)])

RECURSIVE BitLenInt(_)
BitLenInt(x) == IF x = 0 THEN 0 ELSE 1 + BitLenInt(x \div 2)

BBitLen(a) == IF a = << >> THEN 0 ELSE 14 * (Len(a) - 1) + BitLenInt(a[Len(a)])

BIsOdd(a) == a # << >> /\ a[1] % 2 = 1

NaN == [k |-> "nan", neg |-> FALSE, hi |-> 0, lo |-> 0, e |-> 0]

Infinity == [k |-> "inf", neg |-> FALSE, hi |-> 0, lo |-> 0, e |-> 0]

Zero == [k |-> "fin", neg |-> FALSE, hi |-> 0, lo |-> 0, e |-> -1074]

\* the significand of a finite number
Mant(x) == BTrim(<<x.lo % Limb, x.lo \div Limb, x.hi % Limb, x.hi \div Limb>>)

\* the finite number a * 2^e for a significand a below 2^53
Pack(a, e) ==
  IF a = << >> THEN Zero
  ELSE [k |-> "fin", neg |-> FALSE, hi |-> LimbAt(a, 3) + Limb * LimbAt(a, 4),
        lo |-> LimbAt(a, 1) + Limb * LimbAt(a, 2), e |-> e]

\* the binary64 value nearest to N * 2^E (a little more when sticky), ties
\* to even; Infinity beyond the largest finite value
Round(N, E, sticky) ==
  LET Finite(q, et) == IF et > 971 THEN Infinity ELSE Pack(q, et)
      \* the significand q at the exponent et; when the rounding has carried
      \* into a 54th bit (over) it is halved
      Fit(q, over, et) == Finite(IF over THEN BShr(q, 1) ELSE q, IF over THEN et + 1 ELSE et)
      \* q, or q + 1 when the part cut off is above one half of the last
      \* place (c > 0), or is one half (c = 0) and q is odd
      Nearest(q, c) ==
        IF c > 0 \/ (c = 0 /\ (sticky \/ BIsOdd(q))) THEN BAdd(q, <<1>>) ELSE q
      \* N with its last sh bits cut off, or with -sh zero bits appended
      Cut(sh) ==
        IF sh <= 0 THEN BShl(N, 0 - sh)
        ELSE Nearest(BShr(N, sh), BCmp(BLow(N, sh), BPow2(sh - 1)))
      Kept(q, et) == Fit(q, BBitLen(q) = 54, et)
      AtExponent(et) == Kept(Cut(et - E), et)
      \* N has L bits: 53 are kept, fewer in the subnormal range
      OfLength(L) == AtExponent(IF E + L - 53 < -1074 THEN -1074 ELSE E + L - 53)
  IN IF N = << >> THEN Zero ELSE OfLength(BBitLen(N))

\* the finite number a * 2^e for a significand a other than 0 of at most 53
\* bits, which is brought to 53 bits
Normal(a, e) ==
  LET Shifted(sh) == Pack(BShl(a, sh), e - sh)
  IN Shifted(53 - BBitLen(a))

\* x with the sign neg; NaN has no sign
Signed(x, neg) == IF x.k = "nan" THEN x ELSE [x EXCEPT !.neg = neg]

\* -x
Neg(x) == Signed(x, ~x.neg)

\* Math.abs(x)
Abs(x) == Signed(x, FALSE)

\* the integer literal i: every integer of 32 bits is a binary64 value
Num(i) ==
  IF i = 0 THEN Zero
  ELSE Signed(Normal(BOfInt(IF i < 0 THEN 0 - i ELSE i), 0), i < 0)

IsFinite(x) == x.k = "fin"

\* x is 0 or -0
IsZero(x) == x.k = "fin" /\ x.hi = 0 /\ x.lo = 0

\* |x| * |y|
MulAbs(x, y) ==
  IF x.k = "inf" \/ y.k = "inf"
  THEN (IF IsZero(x) \/ IsZero(y) THEN NaN ELSE Infinity)
  ELSE IF IsZero(x) \/ IsZero(y) THEN Zero
  ELSE Round(BMul(Mant(x), Mant(y)), x.e + y.e, FALSE)

\* x * y
Mul(x, y) ==
  IF x.k = "nan" \/ y.k = "nan" THEN NaN
  ELSE Signed(MulAbs(x, y), x.neg # y.neg)

\* one step of the binary long division by dh:dl (a divisor below 2^53 in
\* halves of 28 bits): the remainder s.rh:s.rl is doubled, the divisor is taken
\* off when it fits, and the quotient s.qh:s.ql takes the next digit
DivStep(s, dh, dl) ==
  LET Digit(nh, nl) ==
        IF nh > dh \/ (nh = dh /\ nl >= dl)
        THEN [rh |-> nh - dh - (IF nl < dl THEN 1 ELSE 0), rl |-> (nl - dl + Half) % Half,
              qh |-> 2 * s.qh + (2 * s.ql + 1) \div Half, ql |-> (2 * s.ql + 1) % Half]
        ELSE [rh |-> nh, rl |-> nl,
              qh |-> 2 * s.qh + (2 * s.ql) \div Half, ql |-> (2 * s.ql) % Half]
  IN Digit(2 * s.rh + (2 * s.rl) \div Half, (2 * s.rl) % Half)

\* n steps of the long division
RECURSIVE DivSteps(_, _, _, _)
DivSteps(s, dh, dl, n) ==
  LET Then(t) == IF t.rh >= 0 THEN DivSteps(t, dh, dl, n - n \div 2) ELSE t
  IN IF n = 0 THEN s
     ELSE IF n = 1 THEN DivStep(s, dh, dl)
     ELSE Then(DivSteps(s, dh, dl, n \div 2))

\* the quotient of the magnitudes of two finite numbers other than zero:
\* both significands are brought to 53 bits, and the first digit and 55
\* further digits of the quotient are rounded, together with whether a
\* remainder is left
FinDiv(x, y) ==
  LET \* the first digit of the quotient of the significands of a and b
      First(a, b) ==
        IF a.hi > b.hi \/ (a.hi = b.hi /\ a.lo >= b.lo)
        THEN [rh |-> a.hi - b.hi - (IF a.lo < b.lo THEN 1 ELSE 0),
              rl |-> (a.lo - b.lo + Half) % Half, qh |-> 0, ql |-> 1]
        ELSE [rh |-> a.hi, rl |-> a.lo, qh |-> 0, ql |-> 0]
      Rounded(q, e) ==
        Round(BTrim(<<q.ql % Limb, q.ql \div Limb, q.qh % Limb, q.qh \div Limb>>),
              e, q.rh # 0 \/ q.rl # 0)
      Quotient(a, b) == Rounded(DivSteps(First(a, b), b.hi, b.lo, 55), a.e - b.e - 55)
  IN Quotient(Normal(Mant(x), x.e), Normal(Mant(y), y.e))

\* |x| / |y|, with JavaScript's results for a zero or non-finite operand
DivAbs(x, y) ==
  IF x.k = "inf" THEN (IF y.k = "inf" THEN NaN ELSE Infinity)
  ELSE IF y.k = "inf" THEN Zero
  ELSE IF IsZero(y) THEN (IF IsZero(x) THEN NaN ELSE Infinity)
  ELSE IF IsZero(x) THEN Zero
  ELSE FinDiv(x, y)

\* x / y
Div(x, y) ==
  IF x.k = "nan" \/ y.k = "nan" THEN NaN
  ELSE Signed(DivAbs(x, y), x.neg # y.neg)

\* the binary64 value nearest to m * 10^-k
DecValue(m, k) == Div(Num(m), Num(Pow10(k)))

\* the literals of two decimal places up to 4.00, computed once
Hundredths == [m \in 0..400 |-> DecValue(m, 2)]

\* the decimal literal m * 10^-k, e.g. 1.45 is Dec(145, 2): the binary64
\* value nearest to it
Dec(m, k) == IF k = 2 /\ m \in 0..400 THEN Hundredths[m] ELSE DecValue(m, k)

\* |x| <= |y| on finite numbers
FinLeq(x, y) ==
  \/ x.e < y.e
  \/ x.e = y.e /\ x.hi < y.hi
  \/ x.e = y.e /\ x.hi = y.hi /\ x.lo <= y.lo

\* |x| + |y| on finite numbers
SumAbs(x, y) ==
  LET Sum(big, small) ==
        IF big.e - small.e > 60
        THEN Round(BShl(Mant(big), 2), big.e - 2, ~IsZero(small))
        ELSE Round(BAdd(BShl(Mant(big), big.e - small.e), Mant(small)), small.e, FALSE)
  IN IF x.e >= y.e THEN Sum(x, y) ELSE Sum(y, x)

\* |x| - |y| on finite numbers with |x| > |y|
DiffAbs(x, y) ==
  IF IsZero(y) THEN Abs(x)
  ELSE IF x.e - y.e > 60 THEN Round(BSub(BShl(Mant(x), 2), <<1>>), x.e - 2, TRUE)
  ELSE Round(BSub(BShl(Mant(x), x.e - y.e), Mant(y)), y.e, FALSE)

\* x + y on finite numbers: the sum of two numbers of one sign has that sign,
\* the sum of two numbers of different signs the sign of the larger one, and
\* x + (-x) is 0
FinAdd(x, y) ==
  IF x.neg = y.neg THEN Signed(SumAbs(x, y), x.neg)
  ELSE IF FinLeq(x, y) /\ FinLeq(y, x) THEN Zero
  ELSE IF FinLeq(y, x) THEN Signed(DiffAbs(x, y), x.neg)
  ELSE Signed(DiffAbs(y, x), y.neg)

\* x + y
Add(x, y) ==
  IF x.k = "nan" \/ y.k = "nan" THEN NaN
  ELSE IF x.k = "inf" THEN (IF y.k = "inf" /\ y.neg # x.neg THEN NaN ELSE x)
  ELSE IF y.k = "inf" THEN y
  ELSE FinAdd(x, y)

\* x - y
Sub(x, y) == Add(x, Neg(y))

\* |x| <= |y| on numbers other than NaN
AbsLeq(x, y) ==
  IF y.k = "inf" THEN TRUE
  ELSE IF x.k = "inf" THEN FALSE
  ELSE FinLeq(x, y)

\* JavaScript x <= y : every comparison with NaN is false, and -0 is 0
Leq(x, y) ==
  IF x.k = "nan" \/ y.k = "nan" THEN FALSE
  ELSE IF IsZero(x) /\ IsZero(y) THEN TRUE
  ELSE IF x.neg # y.neg THEN x.neg
  ELSE IF x.neg THEN AbsLeq(y, x)
  ELSE AbsLeq(x, y)

\* JavaScript x < y
Less(x, y) ==
  IF x.k = "nan" \/ y.k = "nan" THEN FALSE
  ELSE ~Leq(y, x)

\* JavaScript x === y on numbers
NumEq(x, y) == Leq(x, y) /\ Leq(y, x)

(***************************************************************************)
(* Numbers as text.  A text is the sequence of its characters.             *)
(***************************************************************************)
DigitChars == <<"0", "1", "2", "3", "4", "5", "6", "7", "8", "9">>

\* the text of a sequence of decimal digits
Chars(ds) == [i \in 1..Len(ds) |-> DigitChars[ds[i] + 1]]

\* the quotient q and the remainder r of a by k, for k below 2^16
RECURSIVE BDivSmall(_, _)
BDivSmall(a, k) ==
  LET Low(h) == [q |-> <<(h.r * Limb + a[1]) \div k>> \o h.q, r |-> (h.r * Limb + a[1]) % k]
  IN IF a = << >> THEN [q |-> << >>, r |-> 0] ELSE Low(BDivSmall(Tail(a), k))

\* 10^k
RECURSIVE BPow10(_)
BPow10(k) ==
  LET Squared(h) == BMul(h, h)
  IN IF k = 0 THEN <<1>>
     ELSE IF k % 2 = 1 THEN BMulSmall(BPow10(k - 1), 10)
     ELSE Squared(BPow10(k \div 2))

\* the digits of a to the base 10000, the first one first; 0 has none
RECURSIVE BChunks(_)
BChunks(a) ==
  LET Last(d) == IF d.r >= 0 THEN BChunks(BTrim(d.q)) \o <<d.r>> ELSE << >>
  IN IF a = << >> THEN << >> ELSE Last(BDivSmall(a, 10000))

\* the decimal digits of a, the first one first; 0 has none
BDigits(a) ==
  LET Four(c) == <<c \div 1000, (c \div 100) % 10, (c \div 10) % 10, c % 10>>
      \* the zeros in front of the first of the chunks cs
      Zeros(c) == IF c >= 1000 THEN 0 ELSE IF c >= 100 THEN 1 ELSE IF c >= 10 THEN 2 ELSE 3
      Digit(cs, i) == Four(cs[(i + 3) \div 4])[((i - 1) % 4) + 1]
      From(cs, z) == [i \in 1..(4 * Len(cs) - z) |-> Digit(cs, i + z)]
      Of(cs) == IF cs = << >> THEN << >> ELSE From(cs, Zeros(cs[1]))
  IN Of(BChunks(a))

\* the natural number of the decimal digits ds
RECURSIVE BOfDigits(_)
BOfDigits(ds) ==
  IF ds = << >> THEN << >>
  ELSE BAdd(BMulSmall(BOfDigits(SubSeq(ds, 1, Len(ds) - 1)), 10), BOfInt(ds[Len(ds)]))

\* the magnitude of a finite x that is an integer
BOfNumber(x) == BShl(Mant(x), x.e)

\* the digits of ds with a point before the last f of them, after zeros have
\* been put in front until one digit is left before the point
Pointed(ds, f) ==
  LET Split(all) ==
        IF f = 0 THEN Chars(all)
        ELSE Chars(SubSeq(all, 1, Len(all) - f)) \o <<".">>
               \o Chars(SubSeq(all, Len(all) - f + 1, Len(all)))
  IN Split([i \in 1..(IF Len(ds) > f THEN 0 ELSE f + 1 - Len(ds)) |-> 0] \o ds)

\* a finite x below 10^21 with f digits after the point: the integer n for
\* which n / 10^f is nearest to the exact value of |x|, the larger n of two
FixedPoint(x, f) ==
  LET Scaled(p) ==
        IF x.e >= 0 THEN BShl(p, x.e)
        ELSE BShr(BAdd(p, BPow2((0 - x.e) - 1)), 0 - x.e)
  IN Pointed(BDigits(Scaled(BMul(Mant(x), BPow10(f)))), f)

\* Number::toString of a finite x of magnitude 10^21 or more: the fewest
\* digits s and the n for which s * 10^(n - k), k the number of digits, is a
\* decimal literal of |x|; of two such s the one nearer to |x|, the even one
\* when both are as near; written d.ddde+(n - 1)
Exponential(x) ==
  LET \* the text of the digits s with the exponent n
      Written(s, n) ==
        (IF Len(s) = 1 THEN Chars(s) ELSE Chars(<<s[1]>>) \o <<".">> \o Chars(Tail(s)))
          \o <<"e", "+">> \o Chars(BDigits(BOfInt(n - 1)))
      \* X is |x| and ds its N decimal digits
      Shortest(X, ds, N) ==
        LET Reads(s, k) == Round(BMul(s, BPow10(N - k)), 0, FALSE) = Abs(x)
            \* the digits of s, which is 10^k when the digits before it were nines
            Of(s, k) == IF Len(BDigits(s)) > k THEN Written(<<1>>, N + 1)
                        ELSE Written(BDigits(s), N)
            \* lo is the number of the first k digits, hi the next one
            Choice(lo, hi, k, below, above) ==
              IF Reads(lo, k) /\ Reads(hi, k)
              THEN (IF below < 0 \/ (below = 0 /\ ~BIsOdd(lo)) THEN Of(lo, k) ELSE Of(hi, k))
              ELSE IF Reads(lo, k) THEN Of(lo, k)
              ELSE IF Reads(hi, k) THEN Of(hi, k)
              ELSE << >>
            \* how X - lo * 10^(N - k) compares with hi * 10^(N - k) - X
            Nearer(lo, hi, k) ==
              BCmp(BSub(X, BMul(lo, BPow10(N - k))), BSub(BMul(hi, BPow10(N - k)), X))
            Tried(lo, k) == Choice(lo, BAdd(lo, <<1>>), k, Nearer(lo, BAdd(lo, <<1>>), k), 0)
            At(k) == Tried(BOfDigits(SubSeq(ds, 1, k)), k)
            Lengths == {k \in 1..(IF N < 17 THEN N ELSE 17) : At(k) # << >>}
        IN At(CHOOSE k \in Lengths : \A j \in Lengths : k <= j)
      OfDigits(X, ds) == Shortest(X, ds, Len(ds))
      OfInteger(X) == OfDigits(X, BDigits(X))
  IN OfInteger(BOfNumber(x))

\* |x| >= 10^21 for a finite x
IsHuge(x) == x.e >= 0 /\ BCmp(BOfNumber(x), BPow10(21)) >= 0

\* Number.prototype.toFixed(digits), for digits from 0 to 100
ToFixed(x, digits) ==
  IF x.k = "nan" THEN <<"N", "a", "N">>
  ELSE (IF x.neg /\ ~IsZero(x) THEN <<"-">> ELSE << >>)
         \o (IF x.k = "inf" THEN <<"I", "n", "f", "i", "n", "i", "t", "y">>
             ELSE IF IsHuge(x) THEN Exponential(x)
             ELSE FixedPoint(x, digits))

(***************************************************************************)
(* Revisions.  The source holds four revisions of the component and four   *)
(* of the service module.  A behaviour runs one component revision with a  *)
(* service revision whose results it can render: the revision titled       *)
(* 1.47/1.52 with the 1.47/1.52 service, the revision titled 1.52x-1.57x   *)
(* with the 1.52/1.57 service, the revision that does not read             *)
(* holdingTimeline with the service that returns none, and the revision    *)
(* that imports only fetchLatestBrkData with the two-strategy service.     *)
(***************************************************************************)
\* src/App.tsx:1-386, src/App.tsx:388-850, src/unnamed/part_002, src/unnamed/part_003
AppRevs == {"AppHighFreq", "AppGolden", "AppRotation", "AppCalc"}

\* src/services/geminiService.ts:2-170 and :173-283, src/unnamed/part_000, part_001
SvcRevs == {"Svc145_155", "SvcLegacy", "Svc152_157", "Svc147_152"}

Revisions ==
  { [app |-> "AppHighFreq", svc |-> "Svc147_152"],
    [app |-> "AppGolden",   svc |-> "Svc145_155"],
    [app |-> "AppRotation", svc |-> "Svc152_157"],
    [app |-> "AppCalc",     svc |-> "SvcLegacy"] }

\* the component revisions that have the backtest tab and the distribution chart
HasBacktest(app) == app # "AppCalc"

\* the component revisions that render a refresh button
HasRefreshButton(app) == app # "AppGolden"

\* the revision whose run button is disabled while backtestLoading
RunButtonDisabledWhileLoading(app) == app = "AppGolden"

(***************************************************************************)
(* Values                                                                  *)
(***************************************************************************)
Null == [null |-> TRUE]

\* the value of an optional string field that is absent
Undefined == "(undefined)"

\* the value of new Date().toLocaleDateString() during a run
Today == "today"

Resolved(v) == [status |-> "resolved", value |-> v]

Rejected == [status |-> "rejected", value |-> Null]

Pending == [status |-> "pending", value |-> Null]

NotIssued == [status |-> "none", value |-> Null]

\* what the endpoint can answer: a parseable body, a transport rejection,
\* or a body JSON.parse throws on
OkResponse(b) == [outcome |-> "ok", body |-> b]

\* the transport rejections alone
Rejections == { [outcome |-> "reject", body |-> Null] }

FailedResponses == Rejections \cup { [outcome |-> "unparseable", body |-> Null] }

(***************************************************************************)
(* Bounds: the bodies the endpoint may answer with, and the user's inputs  *)
(***************************************************************************)
\* snapshot bodies of the orchestration specification: an ordinary snapshot
\* (book value per B share 100, PBR 1.50)
SnapshotBodies ==
  { [totalEquity |-> Num(150), totalAShares |-> Num(1000), currentPrice |-> Num(150), source |-> "src"] }

\* current prices of the snapshot bodies of the valuation specification; with
\* totalEquity 150 and totalAShares 1000 (book value per B share 100) they put
\* the PBR on and between every classification threshold
BodyPrices == {140, 145, 146, 147, 148, 149, 150, 151, 152, 153, 155, 156, 157, 158, 160}

\* the snapshot bodies of the valuation specification: the prices above, the
\* fallback figures, a book value of 222.2222222222222 under which the price
\* 340 gives the PBR 1.5300000000000002, and zero equity, shares and price
ValuationBodies ==
  { [totalEquity |-> Num(150), totalAShares |-> Num(1000), currentPrice |-> Num(p), source |-> "src"]
      : p \in BodyPrices }
  \cup
  { [totalEquity |-> Num(300), totalAShares |-> Num(1000), currentPrice |-> Num(300), source |-> Undefined],
    [totalEquity |-> Num(649368), totalAShares |-> Num(1438223), currentPrice |-> Num(290), source |-> "src"],
    [totalEquity |-> Num(1), totalAShares |-> Num(3), currentPrice |-> Num(340), source |-> "src"],
    [totalEquity |-> Num(150), totalAShares |-> Num(0), currentPrice |-> Num(150), source |-> "src"],
    [totalEquity |-> Num(0), totalAShares |-> Num(0), currentPrice |-> Num(150), source |-> "src"],
    [totalEquity |-> Num(0), totalAShares |-> Num(1000), currentPrice |-> Num(150), source |-> "src"],
    [totalEquity |-> Num(0), totalAShares |-> Num(1000), currentPrice |-> Num(0), source |-> "src"] }

DistributionBodies ==
  { << [range |-> "< 1.2", percentage |-> Num(40)], [range |-> "> 1.6", percentage |-> Num(60)] >> }

\* a body whose series differ in length and whose ROI does not match them
BacktestBodies ==
  { [labels |-> <<"2020", "2021", "2022">>,
     holdValues |-> <<Num(100)>>,
     qqqHoldValues |-> <<Num(100), Num(120)>>,
     strategyValues |-> << >>,
     holdingTimeline |-> << [label |-> "2020", asset |-> "BRK.B"] >>,
     numTrades |-> 7, holdRoi |-> Num(999), qqqRoi |-> Num(0), strategyRoi |-> Num(1),
     optimalBuyPbr |-> Dec(15, 1), optimalSellPbr |-> Dec(14, 1), description |-> "inconsistent"] }

\* backtest bodies of the backtest specification: the body above, a body with
\* no points at all, and a body whose series are as long as its labels
ResultBodies ==
  BacktestBodies \cup
  { [labels |-> << >>, holdValues |-> << >>, qqqHoldValues |-> << >>, strategyValues |-> << >>,
     holdingTimeline |-> << >>,
     numTrades |-> 0, holdRoi |-> Num(0), qqqRoi |-> Num(0), strategyRoi |-> Num(0),
     optimalBuyPbr |-> Dec(15, 1), optimalSellPbr |-> Dec(14, 1), description |-> "empty"],
    [labels |-> <<"2020", "2021", "2022">>,
     holdValues |-> <<Num(100), Num(110), Num(120)>>,
     qqqHoldValues |-> <<Num(100), Num(90), Num(130)>>,
     strategyValues |-> <<Num(100), Num(115), Num(140)>>,
     holdingTimeline |-> << [label |-> "2020", asset |-> "BRK.B"],
                            [label |-> "2021", asset |-> "QQQ"],
                            [label |-> "2022", asset |-> "BRK.B"] >>,
     numTrades |-> 2, holdRoi |-> Num(20), qqqRoi |-> Num(30), strategyRoi |-> Num(40),
     optimalBuyPbr |-> Dec(15, 1), optimalSellPbr |-> Dec(16, 1), description |-> "consistent"] }

\* values typed into the initial-capital field
Capitals == {10000, 50000}

\* positions of the PBR slider
CustomPbrs == {Dec(15, 1)}

\* requests of one kind that may be in flight together
MaxInFlight == 2

(***************************************************************************)
(* services/geminiService.ts                                               *)
(***************************************************************************)
\* the payload of the catch block of fetchLatestBrkData
SnapshotFallback ==
  [totalEquity |-> Num(649368), totalAShares |-> Num(1438223), currentPrice |-> Num(470),
   lastUpdated |-> "2024-12-31 (Manual Fallback)",
   sourceUrl |-> "https://www.berkshirehathaway.com/"]

\* fetchLatestBrkData whose catch block does not cover JSON.parse
fetchLatestBrkData_parseUncaught(resp) ==
  IF resp.outcome = "ok"
  THEN Resolved([totalEquity |-> resp.body.totalEquity,
                 totalAShares |-> resp.body.totalAShares,
                 currentPrice |-> resp.body.currentPrice,
                 lastUpdated |-> Today,
                 sourceUrl |-> resp.body.source])
  ELSE IF resp.outcome = "unparseable" THEN Rejected
  ELSE Resolved(SnapshotFallback)

\* fetchLatestBrkData: the settled promise for a response of the endpoint.
\* A rejected await and a throwing JSON.parse both enter the catch block.
fetchLatestBrkData(resp) ==
  IF resp.outcome = "ok"
  THEN Resolved([totalEquity |-> resp.body.totalEquity,
                 totalAShares |-> resp.body.totalAShares,
                 currentPrice |-> resp.body.currentPrice,
                 lastUpdated |-> Today,
                 sourceUrl |-> resp.body.source])
  ELSE Resolved(SnapshotFallback)

\* the payload of the catch block of fetchPbrDistribution
DistributionFallback ==
  << [range |-> "< 1.2",     percentage |-> Num(15), count |-> Num(0)],
     [range |-> "1.2 - 1.3", percentage |-> Num(25), count |-> Num(0)],
     [range |-> "1.3 - 1.4", percentage |-> Num(35), count |-> Num(0)],
     [range |-> "1.4 - 1.5", percentage |-> Num(15), count |-> Num(0)],
     [range |-> "1.5 - 1.6", percentage |-> Num(8),  count |-> Num(0)],
     [range |-> "> 1.6",     percentage |-> Num(2),  count |-> Num(0)] >>

\* fetchPbrDistribution
fetchPbrDistribution(resp) ==
  IF resp.outcome = "ok" THEN Resolved(resp.body) ELSE Resolved(DistributionFallback)

\* a series whose first point already carries the first year's growth
Series_firstScaled(c, f) == [i \in 1..Len(f) |-> Mul(c, Dec(f[i], 2))] \o <<Mul(c, Dec(f[Len(f)], 2))>>

\* a series that lacks its last point
Series_oneShort(c, f) == <<c>> \o [i \in 1..(Len(f) - 1) |-> Mul(c, Dec(f[i], 2))]

\* [c, c*f1, ..., c*f5] for factors f given in hundredths
Series(c, f) == <<c>> \o [i \in 1..Len(f) |-> Mul(c, Dec(f[i], 2))]

FallbackLabels == <<"2020", "2021", "2022", "2023", "2024", "2025">>

\* the payload of the catch block of performBacktestAnalysis
\* (src/services/geminiService.ts:154-169)
BacktestFallback_145_155(c) ==
  [labels |-> FallbackLabels,
   holdValues |-> Series(c, <<128, 132, 155, 185, 205>>),
   qqqHoldValues |-> Series(c, <<148, 175, 130, 195, 245>>),
   strategyValues |-> Series(c, <<145, 155, 185, 235, 285>>),
   numTrades |-> 6, holdRoi |-> Num(105), qqqRoi |-> Num(145), strategyRoi |-> Num(185),
   optimalBuyPbr |-> Dec(145, 2), optimalSellPbr |-> Dec(155, 2),
   description |-> "1.45/1.55 switch"]

\* the same in src/unnamed/part_000:165-189
BacktestFallback_152_157(c) ==
  [labels |-> FallbackLabels,
   holdValues |-> Series(c, <<128, 132, 155, 185, 205>>),
   qqqHoldValues |-> Series(c, <<148, 175, 130, 195, 245>>),
   strategyValues |-> Series(c, <<135, 150, 195, 245, 295>>),
   holdingTimeline |-> << [label |-> "2020",    asset |-> "BRK.B"],
                          [label |-> "2021 Q4", asset |-> "BRK.B"],
                          [label |-> "2022 Q2", asset |-> "QQQ"],
                          [label |-> "2023 Q3", asset |-> "BRK.B"],
                          [label |-> "2024 Q2", asset |-> "BRK.B"],
                          [label |-> "2025 Q1", asset |-> "QQQ"] >>,
   numTrades |-> 8, holdRoi |-> Num(105), qqqRoi |-> Num(145), strategyRoi |-> Num(195),
   optimalBuyPbr |-> Dec(152, 2), optimalSellPbr |-> Dec(157, 2),
   description |-> "Fallback Data: 1.52x-1.57x"]

\* the same in src/unnamed/part_001:165-190
BacktestFallback_147_152(c) ==
  [labels |-> FallbackLabels,
   holdValues |-> Series(c, <<128, 132, 155, 185, 205>>),
   qqqHoldValues |-> Series(c, <<148, 175, 130, 195, 245>>),
   strategyValues |-> Series(c, <<155, 175, 215, 265, 315>>),
   holdingTimeline |-> << [label |-> "2020",    asset |-> "BRK.B"],
                          [label |-> "2021 Q1", asset |-> "QQQ"],
                          [label |-> "2021 Q3", asset |-> "BRK.B"],
                          [label |-> "2022 Q2", asset |-> "QQQ"],
                          [label |-> "2023 Q1", asset |-> "BRK.B"],
                          [label |-> "2024 Q4", asset |-> "BRK.B"],
                          [label |-> "2025 Q1", asset |-> "QQQ"] >>,
   numTrades |-> 12, holdRoi |-> Num(105), qqqRoi |-> Num(145), strategyRoi |-> Num(215),
   optimalBuyPbr |-> Dec(147, 2), optimalSellPbr |-> Dec(152, 2),
   description |-> "1.47x/1.52x high frequency"]

\* the same in the two-strategy revision (src/services/geminiService.ts:269-281):
\* literal values, the function has no capital parameter
BacktestFallback_Legacy ==
  [labels |-> <<"2014", "2016", "2018", "2020", "2022", "2024">>,
   holdValues |-> <<Num(10000), Num(12500), Num(16000), Num(18000), Num(24000), Num(31000)>>,
   strategyValues |-> <<Num(10000), Num(11000), Num(14500), Num(19000), Num(21000), Num(26000)>>,
   numTrades |-> 4, holdRoi |-> Num(210), strategyRoi |-> Num(160),
   description |-> "hold beats swing"]

\* the catch block of the service revision svc for the capital c
FallbackOf(svc, c) ==
  CASE svc = "Svc145_155" -> BacktestFallback_145_155(Num(c))
    [] svc = "Svc152_157" -> BacktestFallback_152_157(Num(c))
    [] svc = "Svc147_152" -> BacktestFallback_147_152(Num(c))
    [] OTHER              -> BacktestFallback_Legacy

\* the fallbacks for the capitals that can be typed, computed once
Fallbacks ==
  { [svc |-> svc, capital |-> c, result |-> FallbackOf(svc, c)] : svc \in SvcRevs, c \in Capitals }

\* fallbacks whose holdRoi is the final value as a percentage of the first
BacktestFallback_roiAsMultiple(svc, initialCapital) ==
  LET fb == FallbackOf(svc, initialCapital)
  IN [fb EXCEPT !.holdRoi = Add(@, Num(100))]

\* the fallback of service revision svc
BacktestFallback(svc, initialCapital) ==
  IF initialCapital \in Capitals
  THEN (CHOOSE t \in Fallbacks : t.svc = svc /\ t.capital = initialCapital).result
  ELSE FallbackOf(svc, initialCapital)

\* performBacktestAnalysis that rethrows instead of returning the fallback
performBacktestAnalysis_rethrows(svc, initialCapital, resp) ==
  IF resp.outcome = "ok" THEN Resolved(resp.body) ELSE Rejected

\* performBacktestAnalysis that returns the fallback for a body whose series
\* are not as long as its labels
performBacktestAnalysis_validates(svc, initialCapital, resp) ==
  IF /\ resp.outcome = "ok"
     /\ Len(resp.body.holdValues) = Len(resp.body.labels)
     /\ Len(resp.body.strategyValues) = Len(resp.body.labels)
  THEN Resolved(resp.body)
  ELSE Resolved(BacktestFallback(svc, initialCapital))

\* performBacktestAnalysis that resolves with null when the request has failed
performBacktestAnalysis_nullOnFailure(svc, initialCapital, resp) ==
  IF resp.outcome = "ok" THEN Resolved(resp.body) ELSE Resolved(Null)

\* performBacktestAnalysis
performBacktestAnalysis(svc, initialCapital, resp) ==
  IF resp.outcome = "ok" THEN Resolved(resp.body)
  ELSE Resolved(BacktestFallback(svc, initialCapital))

(***************************************************************************)
(* App: derived values (useMemo)                                           *)
(***************************************************************************)
\* the multiplier lists of the price-target table, in hundredths:
\* src/App.tsx:66, src/unnamed/part_003:38, src/App.tsx:452 and src/unnamed/part_002:65
multipliers_HighFreq == <<100, 120, 140, 145, 147, 149, 150, 151, 152, 155, 160, 180>>

multipliers_Calc == <<100, 110, 120, 130, 140, 150, 160>>

multipliers_Rotation == <<130, 140, 145, 150, 152, 154, 155, 156, 157, 159, 160, 170>>

multipliers(app) ==
  CASE app = "AppHighFreq" -> multipliers_HighFreq
    [] app = "AppCalc"     -> multipliers_Calc
    [] OTHER               -> multipliers_Rotation

\* targets that divide the book value by the multiplier
targetsOf_divides(ms, bookValuePerB) ==
  [i \in 1..Len(ms) |-> [multiplier |-> Dec(ms[i], 2), price |-> Div(bookValuePerB, Dec(ms[i], 2))]]

\* targets that lose the last row of the multiplier list
targetsOf_dropsLast(ms, bookValuePerB) ==
  [i \in 1..(Len(ms) - 1) |-> [multiplier |-> Dec(ms[i], 2), price |-> Mul(bookValuePerB, Dec(ms[i], 2))]]

\* multipliers.map(m => ({ multiplier: m, price: bookValuePerB * m }))
targetsOf(ms, bookValuePerB) ==
  [i \in 1..Len(ms) |-> [multiplier |-> Dec(ms[i], 2), price |-> Mul(bookValuePerB, Dec(ms[i], 2))]]

\* a valuation that converts A shares to B shares at 1:1000
valuation_wrongRatio(app, d) ==
  IF d = Null THEN Null
  ELSE LET bookValuePerA == Div(Mul(d.totalEquity, Num(1000000)), d.totalAShares)
           bookValuePerB == Div(bookValuePerA, Num(1000))
       IN [bookValuePerA |-> bookValuePerA,
           bookValuePerB |-> bookValuePerB,
           targets |-> targetsOf(multipliers(app), bookValuePerB)]

\* a valuation that reports a book value of zero when there are no shares
valuation_zeroForNoShares(app, d) ==
  IF d = Null THEN Null
  ELSE LET bookValuePerA == IF IsZero(d.totalAShares) THEN Zero
                            ELSE Div(Mul(d.totalEquity, Num(1000000)), d.totalAShares)
           bookValuePerB == Div(bookValuePerA, Num(1500))
       IN [bookValuePerA |-> bookValuePerA,
           bookValuePerB |-> bookValuePerB,
           targets |-> targetsOf(multipliers(app), bookValuePerB)]

\* the valuation memo
valuation(app, d) ==
  IF d = Null THEN Null
  ELSE LET bookValuePerA == Div(Mul(d.totalEquity, Num(1000000)), d.totalAShares)
           bookValuePerB == Div(bookValuePerA, Num(1500))
       IN [bookValuePerA |-> bookValuePerA,
           bookValuePerB |-> bookValuePerB,
           targets |-> targetsOf(multipliers(app), bookValuePerB)]

\* a PBR computed as book value over price
currentPbrValue_inverted(app, d) ==
  LET v == valuation(app, d)
  IN IF d = Null \/ v = Null THEN Zero
     ELSE Div(v.bookValuePerB, d.currentPrice)

\* the currentPbrValue memo
currentPbrValue(app, d) ==
  LET v == valuation(app, d)
  IN IF d = Null \/ v = Null THEN Zero
     ELSE Div(d.currentPrice, v.bookValuePerB)

\* a classification whose first band excludes its upper boundary
currentStatusInfo_openFirstBand(app, pbr) ==
  IF app = "AppHighFreq"
  THEN IF Less(pbr, Dec(145, 2)) THEN "Deep Value"
       ELSE IF Leq(pbr, Dec(147, 2)) THEN "Entry Zone"
       ELSE IF Leq(pbr, Dec(149, 2)) THEN "Accumulate"
       ELSE IF Leq(pbr, Dec(151, 2)) THEN "Pre-Trim"
       ELSE IF Leq(pbr, Dec(153, 2)) THEN "Shift"
       ELSE "Overvalued"
  ELSE IF app = "AppGolden"
  THEN IF Less(pbr, Dec(145, 2)) THEN "Value Buy"
       ELSE IF Leq(pbr, Dec(151, 2)) THEN "Steady Hold"
       ELSE IF Leq(pbr, Dec(153, 2)) THEN "Buy-back (1.52)"
       ELSE IF Leq(pbr, Dec(156, 2)) THEN "High Alert"
       ELSE IF Leq(pbr, Dec(158, 2)) THEN "Sell (1.57)"
       ELSE "Historic High"
  ELSE IF Less(pbr, Dec(145, 2)) THEN "Safety"
       ELSE IF Leq(pbr, Dec(151, 2)) THEN "Hold"
       ELSE IF Leq(pbr, Dec(153, 2)) THEN "1.52 Entry"
       ELSE IF Leq(pbr, Dec(156, 2)) THEN "Warning"
       ELSE IF Leq(pbr, Dec(158, 2)) THEN "1.57 Exit"
       ELSE "Overvalued"

\* the currentStatusInfo memo of src/App.tsx:76-84: the label of the zone of pbr
currentStatusInfo_HighFreq(pbr) ==
  IF Leq(pbr, Dec(145, 2)) THEN "Deep Value"
  ELSE IF Leq(pbr, Dec(147, 2)) THEN "Entry Zone"
  ELSE IF Leq(pbr, Dec(149, 2)) THEN "Accumulate"
  ELSE IF Leq(pbr, Dec(151, 2)) THEN "Pre-Trim"
  ELSE IF Leq(pbr, Dec(153, 2)) THEN "Shift"
  ELSE "Overvalued"

\* the same of src/App.tsx:462-470
currentStatusInfo_Golden(pbr) ==
  IF Leq(pbr, Dec(145, 2)) THEN "Value Buy"
  ELSE IF Leq(pbr, Dec(151, 2)) THEN "Steady Hold"
  ELSE IF Leq(pbr, Dec(153, 2)) THEN "Buy-back (1.52)"
  ELSE IF Leq(pbr, Dec(156, 2)) THEN "High Alert"
  ELSE IF Leq(pbr, Dec(158, 2)) THEN "Sell (1.57)"
  ELSE "Historic High"

\* the same of src/unnamed/part_002:75-83
currentStatusInfo_Rotation(pbr) ==
  IF Leq(pbr, Dec(145, 2)) THEN "Safety"
  ELSE IF Leq(pbr, Dec(151, 2)) THEN "Hold"
  ELSE IF Leq(pbr, Dec(153, 2)) THEN "1.52 Entry"
  ELSE IF Leq(pbr, Dec(156, 2)) THEN "Warning"
  ELSE IF Leq(pbr, Dec(158, 2)) THEN "1.57 Exit"
  ELSE "Overvalued"

currentStatusInfo(app, pbr) ==
  CASE app = "AppHighFreq" -> currentStatusInfo_HighFreq(pbr)
    [] app = "AppGolden"   -> currentStatusInfo_Golden(pbr)
    [] OTHER               -> currentStatusInfo_Rotation(pbr)

\* s[i] of a JavaScript array: undefined beyond its length
At(s, i) == IF i \in DOMAIN s THEN s[i] ELSE [k |-> "undefined"]

\* chart rows that lose the last label
backtestChartData_dropsLast(bd) ==
  IF bd = Null THEN << >>
  ELSE [index \in 1..(Len(bd.labels) - 1) |->
          [year     |-> bd.labels[index],
           BRKHold  |-> At(bd.holdValues, index),
           QQQHold  |-> At(bd.qqqHoldValues, index),
           Strategy |-> At(bd.strategyValues, index)]]

\* the backtestChartData memo: one row per label, holding the label and the
\* element of each value series at the label's index
backtestChartData(bd) ==
  IF bd = Null THEN << >>
  ELSE [index \in 1..Len(bd.labels) |->
          [year     |-> bd.labels[index],
           BRKHold  |-> At(bd.holdValues, index),
           QQQHold  |-> At(bd.qqqHoldValues, index),
           Strategy |-> At(bd.strategyValues, index)]]

(***************************************************************************)
(* App: state                                                              *)
(***************************************************************************)
VARIABLES
  rev,               \* the revision pair that is running
  mounted,           \* whether the mount effect has run
  data,              \* useState<BrkFinancialData | null>
  loading,
  backtestLoading,
  backtestData,      \* useState<BacktestResult | null>
  distributionData,
  initialCapital,
  error,             \* useState<string | null>
  customPbr,
  activeTab,
  fetches,           \* the fetchData invocations with a request still in flight
  backtests,         \* the runBacktest invocations in flight: a bag of [capital, superseded, requests]
  lastCall           \* the service call, if any, that settled in the last step

vars == <<rev, mounted, data, loading, backtestLoading, backtestData, distributionData,
          initialCapital, error, customPbr, activeTab, fetches, backtests, lastCall>>

\* lastCall.joined: the step resumed fetchData after its await;
\* lastCall.failures: the requests of that fetchData invocation that have failed;
\* lastCall.superseded: runBacktest had been invoked again after the invocation
\* that this call belongs to
NoCall == [fn |-> "none", outcome |-> "none", arg |-> 0, result |-> NotIssued,
           joined |-> FALSE, failures |-> {}, superseded |-> FALSE]

\* the message of the catch block of fetchData
ErrFetch(app) ==
  IF app = "AppCalc" THEN [message |-> "cannot fetch the latest financial data, retry later"]
  ELSE [message |-> "cannot fetch the latest financial or distribution data"]

\* the message of the catch block of runBacktest
ErrBacktest == [message |-> "backtest failed, please retry"]

\* the initial position of the PBR slider
InitialCustomPbr(app) ==
  CASE app = "AppHighFreq" -> Dec(147, 2)
    [] app = "AppCalc"     -> Dec(12, 1)
    [] OTHER               -> Dec(152, 2)

Init ==
  /\ rev \in Revisions
  /\ mounted = FALSE
  /\ data = Null
  /\ loading = TRUE
  /\ backtestLoading = FALSE
  /\ backtestData = Null
  /\ distributionData = << >>
  /\ initialCapital = 10000
  /\ error = Null
  /\ customPbr = InitialCustomPbr(rev.app)
  /\ activeTab = "calc"
  /\ fetches = << >>
  /\ backtests = EmptyBag
  /\ lastCall = NoCall

\* s without its i-th element
RemoveAt(s, i) == [j \in 1..(Len(s) - 1) |-> IF j < i THEN s[j] ELSE s[j + 1]]

(***************************************************************************)
(* App: fetchData                                                          *)
(***************************************************************************)
\* a fetchData that does not raise the loading flag
fetchDataStart_keepsLoading ==
  /\ loading' = loading
  /\ error' = Null
  /\ fetches' = Append(fetches,
                  [fin |-> Pending,
                   dist |-> IF HasBacktest(rev.app) THEN Pending ELSE NotIssued,
                   joined |-> FALSE,
                   failures |-> {}])

\* fetchData up to its await: setLoading(true), setError(null), and the
\* service calls are issued together
fetchDataStart ==
  /\ loading' = TRUE
  /\ error' = Null
  /\ fetches' = Append(fetches,
                  [fin |-> Pending,
                   dist |-> IF HasBacktest(rev.app) THEN Pending ELSE NotIssued,
                   joined |-> FALSE,
                   failures |-> {}])

HasPending(f) == f.fin.status = "pending" \/ f.dist.status = "pending"

\* whether the settling of promise r resumes fetchData invocation i
ResumesNow(i, f2, r) ==
  /\ ~fetches[i].joined
  /\ r.status = "rejected" \/ (r.status = "resolved" /\ ~HasPending(f2))

\* the invocation record once a request has been answered with resp
Answered(f, req, resp, r) ==
  [f EXCEPT ![req] = r,
            !.failures = IF resp.outcome = "ok" THEN @ ELSE @ \cup {req}]

\* a fetchData that keeps a snapshot it already holds
fetchDataResume_keepsPrior(i, f2, r) ==
  LET rejectedNow == ~fetches[i].joined /\ r.status = "rejected"
      resolvedNow == ~fetches[i].joined /\ r.status = "resolved" /\ ~HasPending(f2)
      f3 == [f2 EXCEPT !.joined = fetches[i].joined \/ rejectedNow \/ resolvedNow]
  IN /\ data' = IF resolvedNow /\ data = Null THEN f2.fin.value ELSE data
     /\ distributionData' = IF resolvedNow /\ f2.dist.status = "resolved"
                            THEN f2.dist.value ELSE distributionData
     /\ error' = IF rejectedNow THEN ErrFetch(rev.app) ELSE error
     /\ loading' = IF rejectedNow \/ resolvedNow THEN FALSE ELSE loading
     /\ fetches' = IF HasPending(f2) THEN [fetches EXCEPT ![i] = f3] ELSE RemoveAt(fetches, i)

\* a fetchData that resumes as soon as one of its requests has resolved
fetchDataResume_resumesOnFirst(i, f2, r) ==
  LET rejectedNow == ~fetches[i].joined /\ r.status = "rejected"
      resolvedNow == ~fetches[i].joined /\ r.status = "resolved"
      f3 == [f2 EXCEPT !.joined = fetches[i].joined \/ rejectedNow \/ resolvedNow]
  IN /\ data' = IF resolvedNow /\ f2.fin.status = "resolved" THEN f2.fin.value ELSE data
     /\ distributionData' = IF resolvedNow /\ f2.dist.status = "resolved"
                            THEN f2.dist.value ELSE distributionData
     /\ error' = IF rejectedNow THEN ErrFetch(rev.app) ELSE error
     /\ loading' = IF rejectedNow \/ resolvedNow THEN FALSE ELSE loading
     /\ fetches' = IF HasPending(f2) THEN [fetches EXCEPT ![i] = f3] ELSE RemoveAt(fetches, i)

\* fetchData after its await, run when the service promise r of invocation i
\* settles and leaves the invocation as f2.  Promise.all rejects with the
\* first rejection and resolves once every promise has resolved.
fetchDataResume(i, f2, r) ==
  LET rejectedNow == ~fetches[i].joined /\ r.status = "rejected"
      resolvedNow == ~fetches[i].joined /\ r.status = "resolved" /\ ~HasPending(f2)
      f3 == [f2 EXCEPT !.joined = fetches[i].joined \/ rejectedNow \/ resolvedNow]
  IN /\ data' = IF resolvedNow THEN f2.fin.value ELSE data
     /\ distributionData' = IF resolvedNow /\ f2.dist.status = "resolved"
                            THEN f2.dist.value ELSE distributionData
     /\ error' = IF rejectedNow THEN ErrFetch(rev.app) ELSE error
     /\ loading' = IF rejectedNow \/ resolvedNow THEN FALSE ELSE loading
     /\ fetches' = IF HasPending(f2) THEN [fetches EXCEPT ![i] = f3] ELSE RemoveAt(fetches, i)

\* the mount effect: useEffect(() => { fetchData(); }, [fetchData])
Mount ==
  /\ ~mounted
  /\ mounted' = TRUE
  /\ fetchDataStart
  /\ lastCall' = NoCall
  /\ UNCHANGED <<rev, data, backtestLoading, backtestData, distributionData,
                 initialCapital, customPbr, activeTab, backtests>>

\* a refresh button that is also rendered on the loading screen
ClickRefresh_shownWhileLoading ==
  /\ mounted
  /\ HasRefreshButton(rev.app)
  /\ Len(fetches) < MaxInFlight
  /\ fetchDataStart
  /\ lastCall' = NoCall
  /\ UNCHANGED <<rev, mounted, data, backtestLoading, backtestData, distributionData,
                 initialCapital, customPbr, activeTab, backtests>>

\* the refresh button (rendered only when the loading screen is not shown)
ClickRefresh ==
  /\ mounted
  /\ ~loading
  /\ HasRefreshButton(rev.app)
  /\ Len(fetches) < MaxInFlight
  /\ fetchDataStart
  /\ lastCall' = NoCall
  /\ UNCHANGED <<rev, mounted, data, backtestLoading, backtestData, distributionData,
                 initialCapital, customPbr, activeTab, backtests>>

\* the endpoint answers the snapshot request of fetchData invocation i
SettleSnapshot(i, resp) ==
  /\ fetches[i].fin.status = "pending"
  /\ LET r == fetchLatestBrkData(resp)
         f2 == Answered(fetches[i], "fin", resp, r)
     IN /\ fetchDataResume(i, f2, r)
        /\ lastCall' = [fn |-> "fetchLatestBrkData", outcome |-> resp.outcome,
                        arg |-> 0, result |-> r,
                        joined |-> ResumesNow(i, f2, r), failures |-> f2.failures,
                        superseded |-> FALSE]
  /\ UNCHANGED <<rev, mounted, backtestLoading, backtestData, initialCapital,
                 customPbr, activeTab, backtests>>

\* the endpoint answers the distribution request of fetchData invocation i
SettleDistribution(i, resp) ==
  /\ fetches[i].dist.status = "pending"
  /\ LET r == fetchPbrDistribution(resp)
         f2 == Answered(fetches[i], "dist", resp, r)
     IN /\ fetchDataResume(i, f2, r)
        /\ lastCall' = [fn |-> "fetchPbrDistribution", outcome |-> resp.outcome,
                        arg |-> 0, result |-> r,
                        joined |-> ResumesNow(i, f2, r), failures |-> f2.failures,
                        superseded |-> FALSE]
  /\ UNCHANGED <<rev, mounted, backtestLoading, backtestData, initialCapital,
                 customPbr, activeTab, backtests>>

(***************************************************************************)
(* App: runBacktest                                                        *)
(***************************************************************************)
\* the invocations in flight once runBacktest is invoked again: each of them
\* is no longer the latest
Supersede(B) ==
  [e \in {[x EXCEPT !.superseded = TRUE] : x \in BagToSet(B)} |->
     CopiesIn(e, B) + CopiesIn([e EXCEPT !.superseded = FALSE], B)]

\* runBacktest up to its await: setBacktestLoading(true) and the service is
\* called with the initialCapital of the render that created the closure;
\* the service sends its one generateContent request
runBacktestStart ==
  /\ backtestLoading' = TRUE
  /\ backtests' = Supersede(backtests)
                    (+) SetToBag({[capital |-> initialCapital, superseded |-> FALSE,
                                   requests |-> 1]})

\* a run button that is never disabled
ClickRunBacktest_neverDisabled ==
  /\ mounted
  /\ ~loading
  /\ HasBacktest(rev.app)
  /\ activeTab = "backtest"
  /\ BagCardinality(backtests) < MaxInFlight
  /\ runBacktestStart
  /\ lastCall' = NoCall
  /\ UNCHANGED <<rev, mounted, data, loading, backtestData, distributionData,
                 initialCapital, error, customPbr, activeTab, fetches>>

\* the run button of the backtest tab; one revision disables it while
\* backtestLoading
ClickRunBacktest ==
  /\ mounted
  /\ ~loading
  /\ HasBacktest(rev.app)
  /\ activeTab = "backtest"
  /\ RunButtonDisabledWhileLoading(rev.app) => ~backtestLoading
  /\ BagCardinality(backtests) < MaxInFlight
  /\ runBacktestStart
  /\ lastCall' = NoCall
  /\ UNCHANGED <<rev, mounted, data, loading, backtestData, distributionData,
                 initialCapital, error, customPbr, activeTab, fetches>>

\* a tab button that also gives up waiting for the backtest when the
\* backtest tab is left
SetActiveTab_givesUpWaiting(t) ==
  /\ mounted
  /\ ~loading
  /\ HasBacktest(rev.app)
  /\ t # activeTab
  /\ activeTab' = t
  /\ IF t = "backtest" /\ backtestData = Null
     THEN /\ BagCardinality(backtests) < MaxInFlight
          /\ runBacktestStart
     ELSE /\ backtestLoading' = FALSE
          /\ UNCHANGED backtests
  /\ lastCall' = NoCall
  /\ UNCHANGED <<rev, mounted, data, loading, backtestData, distributionData,
                 initialCapital, error, customPbr, fetches>>

\* a tab button whose effect runs the backtest on every entry of the
\* backtest tab
SetActiveTab_runsOnEveryEntry(t) ==
  /\ mounted
  /\ ~loading
  /\ HasBacktest(rev.app)
  /\ t # activeTab
  /\ activeTab' = t
  /\ IF t = "backtest"
     THEN /\ BagCardinality(backtests) < MaxInFlight
          /\ runBacktestStart
     ELSE UNCHANGED <<backtestLoading, backtests>>
  /\ lastCall' = NoCall
  /\ UNCHANGED <<rev, mounted, data, loading, backtestData, distributionData,
                 initialCapital, error, customPbr, fetches>>

\* a tab button; the [activeTab] effect runs when the tab changed
SetActiveTab(t) ==
  /\ mounted
  /\ ~loading
  /\ HasBacktest(rev.app)
  /\ t # activeTab
  /\ activeTab' = t
  /\ IF t = "backtest" /\ backtestData = Null
     THEN /\ BagCardinality(backtests) < MaxInFlight
          /\ runBacktestStart
     ELSE UNCHANGED <<backtestLoading, backtests>>
  /\ lastCall' = NoCall
  /\ UNCHANGED <<rev, mounted, data, loading, backtestData, distributionData,
                 initialCapital, error, customPbr, fetches>>

\* a runBacktest that drops the response of an invocation that is no longer
\* the latest
SettleBacktest_dropsStale(run, resp) ==
  /\ BagIn(run, backtests)
  /\ LET r == performBacktestAnalysis(rev.svc, run.capital, resp)
     IN /\ backtestData' = IF r.status = "resolved" /\ ~run.superseded
                           THEN r.value ELSE backtestData
        /\ error' = IF r.status = "rejected" /\ rev.app = "AppGolden" THEN ErrBacktest ELSE error
        /\ lastCall' = [fn |-> "performBacktestAnalysis", outcome |-> resp.outcome,
                        arg |-> run.capital, result |-> r,
                        joined |-> FALSE, failures |-> {},
                        superseded |-> run.superseded]
  /\ backtestLoading' = FALSE
  /\ backtests' = backtests (-) SetToBag({run})
  /\ UNCHANGED <<rev, mounted, data, loading, distributionData, initialCapital,
                 customPbr, activeTab, fetches>>

\* a runBacktest whose service sends the request a second time when the
\* first attempt has failed
SettleBacktest_retries(run, resp) ==
  /\ BagIn(run, backtests)
  /\ LET r == performBacktestAnalysis(rev.svc, run.capital, resp)
         retry == resp.outcome # "ok" /\ run.requests = 1
     IN /\ backtestData' = IF r.status = "resolved" /\ ~retry THEN r.value ELSE backtestData
        /\ error' = IF r.status = "rejected" /\ rev.app = "AppGolden" THEN ErrBacktest ELSE error
        /\ lastCall' = [fn |-> "performBacktestAnalysis", outcome |-> resp.outcome,
                        arg |-> run.capital, result |-> r,
                        joined |-> FALSE, failures |-> {},
                        superseded |-> run.superseded]
        /\ backtestLoading' = IF retry THEN backtestLoading ELSE FALSE
        /\ backtests' = IF retry
                        THEN (backtests (-) SetToBag({run}))
                               (+) SetToBag({[run EXCEPT !.requests = 2]})
                        ELSE backtests (-) SetToBag({run})
  /\ UNCHANGED <<rev, mounted, data, loading, distributionData, initialCapital,
                 customPbr, activeTab, fetches>>

\* a runBacktest that leaves backtestLoading set when its request has failed
SettleBacktest_noFinally(run, resp) ==
  /\ BagIn(run, backtests)
  /\ LET r == performBacktestAnalysis(rev.svc, run.capital, resp)
     IN /\ backtestData' = IF r.status = "resolved" THEN r.value ELSE backtestData
        /\ error' = IF r.status = "rejected" /\ rev.app = "AppGolden" THEN ErrBacktest ELSE error
        /\ lastCall' = [fn |-> "performBacktestAnalysis", outcome |-> resp.outcome,
                        arg |-> run.capital, result |-> r,
                        joined |-> FALSE, failures |-> {},
                        superseded |-> run.superseded]
  /\ backtestLoading' = IF resp.outcome = "ok" THEN FALSE ELSE backtestLoading
  /\ backtests' = backtests (-) SetToBag({run})
  /\ UNCHANGED <<rev, mounted, data, loading, distributionData, initialCapital,
                 customPbr, activeTab, fetches>>

\* the endpoint answers the request of the runBacktest invocation run:
\* runBacktest after its await
SettleBacktest(run, resp) ==
  /\ BagIn(run, backtests)
  /\ \E r \in {performBacktestAnalysis(rev.svc, run.capital, resp)} :
        /\ backtestData' = IF r.status = "resolved" THEN r.value ELSE backtestData
        /\ error' = IF r.status = "rejected" /\ rev.app = "AppGolden" THEN ErrBacktest ELSE error
        /\ lastCall' = [fn |-> "performBacktestAnalysis", outcome |-> resp.outcome,
                        arg |-> run.capital, result |-> r,
                        joined |-> FALSE, failures |-> {},
                        superseded |-> run.superseded]
  /\ backtestLoading' = FALSE
  /\ backtests' = backtests (-) SetToBag({run})
  /\ UNCHANGED <<rev, mounted, data, loading, distributionData, initialCapital,
                 customPbr, activeTab, fetches>>

(***************************************************************************)
(* App: inputs                                                             *)
(***************************************************************************)
\* an initial-capital field that runs the backtest again with the new capital
SetInitialCapital_rerunsBacktest(c) ==
  /\ mounted
  /\ ~loading
  /\ HasBacktest(rev.app)
  /\ activeTab = "backtest"
  /\ c # initialCapital
  /\ initialCapital' = c
  /\ BagCardinality(backtests) < MaxInFlight
  /\ backtestLoading' = TRUE
  /\ backtests' = Supersede(backtests)
                    (+) SetToBag({[capital |-> c, superseded |-> FALSE, requests |-> 1]})
  /\ lastCall' = NoCall
  /\ UNCHANGED <<rev, mounted, data, loading, backtestData,
                 distributionData, error, customPbr, activeTab, fetches>>

\* the initial-capital field of the backtest tab
SetInitialCapital(c) ==
  /\ mounted
  /\ ~loading
  /\ HasBacktest(rev.app)
  /\ activeTab = "backtest"
  /\ c # initialCapital
  /\ initialCapital' = c
  /\ lastCall' = NoCall
  /\ UNCHANGED <<rev, mounted, data, loading, backtestLoading, backtestData,
                 distributionData, error, customPbr, activeTab, fetches, backtests>>

\* the PBR slider of the valuation view
SetCustomPbr(p) ==
  /\ mounted
  /\ ~loading
  /\ HasBacktest(rev.app) => activeTab = "calc"
  /\ p # customPbr
  /\ customPbr' = p
  /\ lastCall' = NoCall
  /\ UNCHANGED <<rev, mounted, data, loading, backtestLoading, backtestData,
                 distributionData, initialCapital, error, activeTab, fetches, backtests>>

\* the button of the golden-split revision that copies the recommended buy
\* PBR of the backtest result to the slider (shown in the valuation view once
\* there is a result)
ApplyOptimalBuyPbr ==
  /\ mounted
  /\ ~loading
  /\ rev.app = "AppGolden"
  /\ activeTab = "calc"
  /\ backtestData # Null
  /\ backtestData.optimalBuyPbr # customPbr
  /\ customPbr' = backtestData.optimalBuyPbr
  /\ lastCall' = NoCall
  /\ UNCHANGED <<rev, mounted, data, loading, backtestLoading, backtestData,
                 distributionData, initialCapital, error, activeTab, fetches, backtests>>

\* the steps of the refresh with the snapshot bodies drawn from bodies and
\* the failures of the endpoint from failures
Refresh(bodies, failures) ==
  \/ Mount
  \/ ClickRefresh
  \/ \E i \in DOMAIN fetches :
       \E resp \in {OkResponse(b) : b \in bodies} \cup failures :
         SettleSnapshot(i, resp)
  \/ \E i \in DOMAIN fetches :
       \E resp \in {OkResponse(b) : b \in DistributionBodies} \cup failures :
         SettleDistribution(i, resp)

\* the steps of the backtest tab with the backtest bodies drawn from bodies
\* and the failures of the endpoint from failures
Backtest(bodies, failures) ==
  \/ ClickRunBacktest
  \/ \E t \in {"calc", "backtest"} : SetActiveTab(t)
  \/ \E run \in BagToSet(backtests) :
       \E resp \in {OkResponse(b) : b \in bodies} \cup failures :
         SettleBacktest(run, resp)
  \/ \E c \in Capitals : SetInitialCapital(c)

\* every operation of the view; a failing request is a rejected one (the
\* specifications below also answer with bodies that cannot be parsed)
Next ==
  \/ Refresh(SnapshotBodies, Rejections)
  \/ Backtest(BacktestBodies, Rejections)
  \/ \E p \in CustomPbrs : SetCustomPbr(p)
  \/ ApplyOptimalBuyPbr

Spec == Init /\ [][Next]_vars

\* the valuation specification: refreshes only, over the bodies that exercise
\* the valuation and the zone classification
NextValuation == Refresh(ValuationBodies, FailedResponses)

SpecValuation == Init /\ [][NextValuation]_vars

\* the backtest specification: the first load and the backtest tab, over the
\* bodies that exercise the chart and the stored result
NextBacktest ==
  \/ Mount
  \/ \E i \in DOMAIN fetches :
       \E resp \in {OkResponse(b) : b \in SnapshotBodies} \cup FailedResponses :
         SettleSnapshot(i, resp)
  \/ \E i \in DOMAIN fetches :
       \E resp \in {OkResponse(b) : b \in DistributionBodies} \cup FailedResponses :
         SettleDistribution(i, resp)
  \/ Backtest(ResultBodies, FailedResponses)

SpecBacktest == Init /\ [][NextBacktest]_vars

\* the specification of progress: refreshes and backtest runs with the
\* capital and the slider left alone; the mount effect runs, and every request
\* that is out is eventually answered; what the user does is left open
NextLive ==
  \/ Refresh(SnapshotBodies, FailedResponses)
  \/ ClickRunBacktest
  \/ \E t \in {"calc", "backtest"} : SetActiveTab(t)
  \/ \E run \in BagToSet(backtests) :
       \E resp \in {OkResponse(b) : b \in BacktestBodies} \cup FailedResponses :
         SettleBacktest(run, resp)

Fairness ==
  /\ WF_vars(Mount)
  /\ WF_vars(\E i \in DOMAIN fetches :
               \E resp \in {OkResponse(b) : b \in SnapshotBodies} \cup FailedResponses :
                 SettleSnapshot(i, resp))
  /\ WF_vars(\E i \in DOMAIN fetches :
               \E resp \in {OkResponse(b) : b \in DistributionBodies} \cup FailedResponses :
                 SettleDistribution(i, resp))
  /\ WF_vars(\E run \in BagToSet(backtests) :
               \E resp \in {OkResponse(b) : b \in BacktestBodies} \cup FailedResponses :
                 SettleBacktest(run, resp))

SpecLive == Init /\ [][NextLive]_vars /\ Fairness

(***************************************************************************)
(* Properties                                                              *)
(***************************************************************************)
FailureOutcomes == {"reject", "unparseable"}

BacktestFailed == lastCall.fn = "performBacktestAnalysis" /\ lastCall.outcome \in FailureOutcomes

\* the step resumed a fetchData invocation one of whose requests had failed
RefreshCompletedAfterFailure == lastCall.joined /\ lastCall.failures # {}

\* C1: when the request of runBacktest is rejected or its body cannot be
\* parsed, then right after it has settled backtestLoading is false and
\* backtestData is the fallback result for the capital the run was started with
C1_BacktestFailureLeavesFallback ==
  BacktestFailed =>
    /\ backtestLoading = FALSE
    /\ backtestData # Null
    /\ backtestData = BacktestFallback(rev.svc, lastCall.arg)
    /\ backtestData.labels = FallbackLabels

C1_Witness ==
  /\ BacktestFailed
  /\ lastCall.outcome = "reject"
  /\ initialCapital # lastCall.arg
  /\ backtestLoading = FALSE
  /\ backtestData.holdValues[1] = Num(lastCall.arg)

\* C2 as stated: a refresh one of whose requests failed leaves data and
\* distributionData as they were (and data null if nothing was fetched before)
C2_Original_FailedRefreshLeavesStateUntouched ==
  [][ (lastCall'.joined /\ lastCall'.failures # {})
        => (data' = data /\ distributionData' = distributionData) ]_vars

\* C2 amended: when a refresh one of whose requests failed completes, the held
\* state is replaced by what the services returned: data is the fallback
\* snapshot if the snapshot request failed, distributionData the fallback
\* distribution if the distribution request failed; data is not left null
C2_FailedRefreshStoresFallback ==
  RefreshCompletedAfterFailure =>
    /\ data # Null
    /\ "fin" \in lastCall.failures => data = SnapshotFallback
    /\ "dist" \in lastCall.failures => distributionData = DistributionFallback

\* a refresh over a held ordinary snapshot whose snapshot request failed
C2_Witness ==
  /\ RefreshCompletedAfterFailure
  /\ "fin" \in lastCall.failures
  /\ "dist" \notin lastCall.failures
  /\ data = SnapshotFallback
  /\ distributionData \in DistributionBodies
  /\ loading = FALSE

\* C3: when a request of a refresh failed, error is a non-null string by the
\* time the refresh completes
C3_FailedRefreshSetsError ==
  RefreshCompletedAfterFailure => error # Null

\* C4: the service functions never reject; after a transport rejection and
\* after an unparseable body alike the promise resolves with the fallback
\* payload (snapshot: totalEquity 649368, totalAShares 1438223, currentPrice 470)
C4_ServicesResolveWithFallback ==
  lastCall.fn # "none" =>
    /\ lastCall.result.status = "resolved"
    /\ (lastCall.fn = "fetchLatestBrkData" /\ lastCall.outcome \in FailureOutcomes) =>
         /\ lastCall.result.value.totalEquity = Num(649368)
         /\ lastCall.result.value.totalAShares = Num(1438223)
         /\ lastCall.result.value.currentPrice = Num(470)
         /\ lastCall.result.value = SnapshotFallback
    /\ (lastCall.fn = "fetchPbrDistribution" /\ lastCall.outcome \in FailureOutcomes) =>
         lastCall.result.value = DistributionFallback
    /\ (lastCall.fn = "performBacktestAnalysis" /\ lastCall.outcome \in FailureOutcomes) =>
         lastCall.result.value = BacktestFallback(rev.svc, lastCall.arg)

C4_Witness ==
  /\ lastCall.fn = "fetchLatestBrkData"
  /\ lastCall.outcome = "unparseable"
  /\ lastCall.result = Resolved(SnapshotFallback)

\* C5: on the fallback path every value series of the result starts at the
\* initialCapital that performBacktestAnalysis was called with
C5_FallbackSeriesStartAtCapital ==
  BacktestFailed =>
    LET v == lastCall.result.value
    IN /\ NumEq(v.holdValues[1], Num(lastCall.arg))
       /\ NumEq(v.qqqHoldValues[1], Num(lastCall.arg))
       /\ NumEq(v.strategyValues[1], Num(lastCall.arg))
       /\ NumEq(v.holdValues[1], v.strategyValues[1])

C5_Witness ==
  /\ BacktestFailed
  /\ lastCall.arg = 10000
  /\ lastCall.result.value.holdValues[1] = Num(10000)
  /\ lastCall.result.value.strategyValues[1] = Num(10000)
  /\ lastCall.result.value.holdValues[2] = Num(12800)

\* the thresholds of the comparisons of currentStatusInfo, in source order
Thresholds(app) ==
  IF app = "AppHighFreq"
  THEN <<Dec(145, 2), Dec(147, 2), Dec(149, 2), Dec(151, 2), Dec(153, 2)>>
  ELSE <<Dec(145, 2), Dec(151, 2), Dec(153, 2), Dec(156, 2), Dec(158, 2)>>

\* the labels currentStatusInfo returns, in source order
ZoneLabels(app) ==
  CASE app = "AppHighFreq" ->
         <<"Deep Value", "Entry Zone", "Accumulate", "Pre-Trim", "Shift", "Overvalued">>
    [] app = "AppGolden" ->
         <<"Value Buy", "Steady Hold", "Buy-back (1.52)", "High Alert", "Sell (1.57)", "Historic High">>
    [] OTHER ->
         <<"Safety", "Hold", "1.52 Entry", "Warning", "1.57 Exit", "Overvalued">>

\* band z of the thresholds th: (th[z-1], th[z]], the first band unbounded
\* below and the last unbounded above
InBand(th, z, pbr) ==
  /\ z = 1 \/ Less(th[z - 1], pbr)
  /\ z = Len(th) + 1 \/ Leq(pbr, th[z])

\* the PBR the view classifies in the current state
ShownPbr == currentPbrValue(rev.app, data)

\* the text of the target price the valuation view shows for the PBR of the
\* slider
targetPrice ==
  IF valuation(rev.app, data) = Null THEN <<"0">>
  ELSE ToFixed(Mul(valuation(rev.app, data).bookValuePerB, customPbr), 2)

\* C6: the zone classification is total and its zones are contiguous bands in
\* ascending threshold order: the label returned for the current PBR is one of
\* the configured labels, the PBR lies in exactly one band, and the label is
\* that band's; a PBR that is not a number gets the last label
C6_ZonesPartitionThePbrAxis ==
  HasBacktest(rev.app) =>
    LET th     == Thresholds(rev.app)
        labels == ZoneLabels(rev.app)
        pbr    == ShownPbr
        label  == currentStatusInfo(rev.app, pbr)
        bands  == {z \in 1..(Len(th) + 1) : InBand(th, z, pbr)}
    IN /\ \A z \in 1..(Len(th) - 1) : Less(th[z], th[z + 1])
       /\ Cardinality({z \in DOMAIN labels : labels[z] = label}) = 1
       /\ pbr.k # "nan" =>
            /\ Cardinality(bands) = 1
            /\ \A z \in bands : labels[z] = label
       /\ pbr.k = "nan" => label = labels[Len(labels)]

\* a PBR exactly on the first threshold, classified into the first band
C6_Witness ==
  /\ HasBacktest(rev.app)
  /\ data # Null
  /\ NumEq(ShownPbr, Dec(145, 2))
  /\ currentStatusInfo(rev.app, ShownPbr) = ZoneLabels(rev.app)[1]

Positive(x) == x.k = "fin" /\ ~x.neg /\ ~IsZero(x)

\* C7: for positive totalEquity and totalAShares, bookValuePerA is
\* totalEquity * 1,000,000 / totalAShares and bookValuePerB is that quotient
\* divided by 1500, as JavaScript evaluates the two expressions: the values
\* are positive numbers and nothing else is applied to them
C7_BookValuePerShare ==
  (data # Null /\ Positive(data.totalEquity) /\ Positive(data.totalAShares)) =>
    LET v    == valuation(rev.app, data)
        perA == Div(Mul(data.totalEquity, Num(1000000)), data.totalAShares)
    IN /\ v.bookValuePerA = perA
       /\ v.bookValuePerB = Div(perA, Num(1500))
       /\ Positive(v.bookValuePerA)
       /\ Positive(v.bookValuePerB)
       /\ Less(v.bookValuePerB, v.bookValuePerA)

\* totalEquity 150 (millions) over 1000 shares: 150,000 per A share, 100 per B share
C7_Witness ==
  /\ data # Null
  /\ data.totalEquity = Num(150)
  /\ data.totalAShares = Num(1000)
  /\ valuation(rev.app, data).bookValuePerA = Num(150000)
  /\ valuation(rev.app, data).bookValuePerB = Num(100)

IsFallbackSnapshot ==
  /\ data # Null
  /\ data.totalEquity = Num(649368)
  /\ data.totalAShares = Num(1438223)
  /\ data.currentPrice = Num(470)

\* C8 as stated: for the fallback snapshot bookValuePerA is 451,517.9 to one
\* decimal, bookValuePerB 301.01 to two and the current PBR 1.5614 to four
C8_Original_FallbackExample ==
  IsFallbackSnapshot =>
    /\ ToFixed(valuation(rev.app, data).bookValuePerA, 1) = <<"4", "5", "1", "5", "1", "7", ".", "9">>
    /\ ToFixed(valuation(rev.app, data).bookValuePerB, 2) = <<"3", "0", "1", ".", "0", "1">>
    /\ ToFixed(ShownPbr, 4) = <<"1", ".", "5", "6", "1", "4">>

\* C8 amended: for the fallback snapshot bookValuePerA is 451,507.2 to one
\* decimal, bookValuePerB 301.00 to two and the current PBR 1.5614 to four
C8_FallbackExample ==
  IsFallbackSnapshot =>
    /\ ToFixed(valuation(rev.app, data).bookValuePerA, 1) = <<"4", "5", "1", "5", "0", "7", ".", "2">>
    /\ ToFixed(valuation(rev.app, data).bookValuePerB, 2) = <<"3", "0", "1", ".", "0", "0">>
    /\ ToFixed(ShownPbr, 4) = <<"1", ".", "5", "6", "1", "4">>

C8_Witness ==
  /\ IsFallbackSnapshot
  /\ data = SnapshotFallback
  /\ loading = FALSE
  /\ ToFixed(ShownPbr, 2) = <<"1", ".", "5", "6">>

\* C9: for a positive bookValuePerB the rows of valuation.targets are strictly
\* increasing in the multiplier and in the price
C9_TargetsIncrease ==
  data # Null =>
    LET v == valuation(rev.app, data)
        t == v.targets
    IN Positive(v.bookValuePerB) =>
         \A i, j \in DOMAIN t :
           i < j => /\ Less(t[i].multiplier, t[j].multiplier)
                    /\ Less(t[i].price, t[j].price)

C9_Witness ==
  /\ data # Null
  /\ valuation(rev.app, data).bookValuePerB = Num(100)
  /\ valuation(rev.app, data).targets[2].price = Num(140)
  /\ valuation(rev.app, data).targets[3].price = Num(145)

\* C10: valuation.targets has one row per multiplier of the list, in the
\* list's order, and each row's price is bookValuePerB times its multiplier
C10_OneTargetPerMultiplier ==
  data # Null =>
    LET v  == valuation(rev.app, data)
        ms == multipliers(rev.app)
    IN /\ Len(v.targets) = Len(ms)
       /\ Len(ms) = IF rev.app = "AppCalc" THEN 7 ELSE 12
       /\ \A i \in DOMAIN ms :
            /\ v.targets[i].multiplier = Dec(ms[i], 2)
            /\ v.targets[i].price = Mul(v.bookValuePerB, Dec(ms[i], 2))
            /\ v.targets[i].price.k = v.bookValuePerB.k
            /\ IsZero(v.bookValuePerB) => IsZero(v.targets[i].price)

C10_Witness ==
  /\ data # Null
  /\ rev.app = "AppCalc"
  /\ Len(valuation(rev.app, data).targets) = 7
  /\ valuation(rev.app, data).bookValuePerB = Num(200)
  /\ valuation(rev.app, data).targets[7].price = Num(320)

\* the rows the chart of the backtest tab is drawn from
ChartRows == backtestChartData(backtestData)

\* labels and the three value series of bd have one length
SeriesMatchLabels(bd) ==
  /\ Len(bd.holdValues) = Len(bd.labels)
  /\ Len(bd.qqqHoldValues) = Len(bd.labels)
  /\ Len(bd.strategyValues) = Len(bd.labels)

\* C11: for a result whose labels and three value series have length n the
\* chart has exactly n rows of four fields, row i holding labels[i] and the
\* i-th element of each series; for n = 0 and for no result the chart is empty
C11_ChartRowsProjectTheSeries ==
  HasBacktest(rev.app) =>
    /\ backtestData = Null => ChartRows = << >>
    /\ (backtestData # Null /\ SeriesMatchLabels(backtestData)) =>
         /\ Len(ChartRows) = Len(backtestData.labels)
         /\ Len(backtestData.labels) = 0 => ChartRows = << >>
         /\ \A i \in DOMAIN ChartRows :
              /\ DOMAIN ChartRows[i] = {"year", "BRKHold", "QQQHold", "Strategy"}
              /\ Cardinality(DOMAIN ChartRows[i]) = 3 + 1
              /\ ChartRows[i].year = backtestData.labels[i]
              /\ ChartRows[i].BRKHold = backtestData.holdValues[i]
              /\ ChartRows[i].QQQHold = backtestData.qqqHoldValues[i]
              /\ ChartRows[i].Strategy = backtestData.strategyValues[i]

\* the chart of a fallback result: six rows, the last one the 2025 values
C11_Witness ==
  /\ HasBacktest(rev.app)
  /\ backtestData # Null
  /\ SeriesMatchLabels(backtestData)
  /\ Len(ChartRows) = 6
  /\ ChartRows[6].year = "2025"
  /\ ChartRows[6].BRKHold = Num(20500)
  /\ ChartRows[6].QQQHold = Num(24500)

\* C12: the two requests of fetchData are joined: loading turns false, and
\* data or distributionData change, only in the step in which the last
\* outstanding request of that fetchData invocation completes, whichever of
\* the two it is; no invocation has resumed with a request still pending
C12_RefreshJoinsBothRequests ==
  [][ ((loading /\ ~loading') \/ data' # data \/ distributionData' # distributionData)
        => /\ lastCall'.joined
           /\ lastCall'.fn \in {"fetchLatestBrkData", "fetchPbrDistribution"}
           /\ Len(fetches') = Len(fetches) - 1
           /\ \A i \in DOMAIN fetches' : ~fetches'[i].joined ]_vars

\* the distribution request has failed first, the snapshot request is still
\* out: nothing has been stored and the loading screen is still shown
C12_Witness ==
  /\ HasBacktest(rev.app)
  /\ lastCall.fn = "fetchPbrDistribution"
  /\ lastCall.outcome = "reject"
  /\ ~lastCall.joined
  /\ Len(fetches) = 1
  /\ fetches[1].fin.status = "pending"
  /\ fetches[1].dist.status = "resolved"
  /\ loading
  /\ data = Null
  /\ distributionData = << >>

BacktestSettled == lastCall.fn = "performBacktestAnalysis"

\* C13: runBacktest invocations are not de-duplicated and carry no generation
\* guard: every response is stored in backtestData in the step in which it
\* resolves, also the response of an invocation after which runBacktest has
\* been invoked again; backtestData is then the result of the response that
\* resolved last
C13_LastBacktestResponseWins ==
  BacktestSettled =>
    /\ backtestData = lastCall.result.value
    /\ lastCall.outcome \in FailureOutcomes =>
         backtestData = BacktestFallback(rev.svc, lastCall.arg)
    /\ lastCall.outcome = "ok" => backtestData \in ResultBodies

\* the run started first (capital 10000) resolves after the run started later
\* (capital 50000) has finished, and its fallback result is what is shown
C13_Witness ==
  /\ BacktestSettled
  /\ lastCall.superseded
  /\ lastCall.outcome = "reject"
  /\ lastCall.arg = 10000
  /\ initialCapital = 50000
  /\ backtests = EmptyBag
  /\ backtestData = BacktestFallback(rev.svc, 10000)

\* C14: an invocation of runBacktest has exactly one request out; the step in
\* which that request is answered ends the invocation, also when the answer
\* is a failure: no request takes its place, backtestData is the fallback
\* result in that very step and backtestLoading is cleared
C14_OneRequestNoRetry ==
  /\ [](\A run \in BagToSet(backtests) : run.requests = 1)
  /\ [][ /\ BagCardinality(backtests') > BagCardinality(backtests) =>
              BagCardinality(backtests') = BagCardinality(backtests) + 1
         /\ lastCall'.fn = "performBacktestAnalysis" =>
              /\ BagCardinality(backtests') = BagCardinality(backtests) - 1
              /\ ~backtestLoading'
              /\ lastCall'.outcome \in FailureOutcomes =>
                   backtestData' = BacktestFallback(rev.svc, lastCall'.arg) ]_vars

\* the only run in flight got a body that cannot be parsed: nothing is in
\* flight any more and the fallback result is shown
C14_Witness ==
  /\ BacktestFailed
  /\ lastCall.outcome = "unparseable"
  /\ ~lastCall.superseded
  /\ backtests = EmptyBag
  /\ ~backtestLoading
  /\ backtestData = BacktestFallback(rev.svc, lastCall.arg)

\* a request of some fetchData invocation has not been answered yet
RefreshInFlight == \E i \in DOMAIN fetches : HasPending(fetches[i])

\* C15: loading is true in every state in which a request of fetchData is in
\* flight; a step that starts fetchData leaves loading true, and loading turns
\* false only in the step that completes a fetchData invocation, after which
\* none of its requests is out
C15_LoadingWhileRefreshInFlight ==
  /\ [](RefreshInFlight => loading)
  /\ [][ /\ Len(fetches') > Len(fetches) => loading'
         /\ (loading /\ ~loading') => (lastCall'.joined /\ ~RefreshInFlight') ]_vars

\* a refresh over a held snapshot: its snapshot request has been answered,
\* its distribution request has not, and the loading screen is shown
C15_Witness ==
  /\ data # Null
  /\ Len(fetches) = 1
  /\ fetches[1].fin.status = "resolved"
  /\ fetches[1].dist.status = "pending"
  /\ RefreshInFlight
  /\ loading

\* the view is interactive and has data to show
Interactive == ~loading /\ ~backtestLoading /\ data # Null

\* C16: when every request is eventually answered, then from every state,
\* whatever refreshes and backtest runs have been started and however their
\* requests end, a state follows in which loading and backtestLoading are
\* false and data is not null
C16_EventuallyInteractive ==
  /\ (loading \/ backtestLoading) ~> Interactive
  /\ []<>Interactive

\* both requests of a refresh and the request of a backtest run have failed,
\* and the view is interactive with the default data
C16_Witness ==
  /\ Interactive
  /\ BacktestFailed
  /\ fetches = << >>
  /\ backtests = EmptyBag
  /\ data = SnapshotFallback
  /\ distributionData = DistributionFallback
  /\ backtestData = BacktestFallback(rev.svc, lastCall.arg)

\* a refresh has just completed and stored a snapshot that the endpoint
\* answered with totalAShares = 0
StoredZeroShares ==
  /\ lastCall.joined
  /\ "fin" \notin lastCall.failures
  /\ data # Null
  /\ IsZero(data.totalAShares)

\* C17 as stated: a stored snapshot with totalAShares = 0 leaves error null
\* and loading false, and the book values and the current PBR are not finite
C17_Original_ZeroSharesNonFinitePbr ==
  StoredZeroShares =>
    /\ error = Null
    /\ ~loading
    /\ ~IsFinite(valuation(rev.app, data).bookValuePerA)
    /\ ~IsFinite(valuation(rev.app, data).bookValuePerB)
    /\ ~IsFinite(ShownPbr)

\* C17 amended: a stored snapshot with totalAShares = 0 leaves error null and
\* loading false; the book values and every target price are not finite
\* (Infinity for a positive totalEquity, NaN for totalEquity 0); the current
\* PBR is the finite value 0 for a positive totalEquity (a price divided by
\* Infinity) and is classified into the lowest zone, and is NaN for
\* totalEquity 0
C17_ZeroSharesStoredAsIs ==
  StoredZeroShares =>
    LET v == valuation(rev.app, data)
    IN /\ error = Null
       /\ ~loading
       /\ ~IsFinite(v.bookValuePerA)
       /\ ~IsFinite(v.bookValuePerB)
       /\ \A i \in DOMAIN v.targets : ~IsFinite(v.targets[i].price)
       /\ Positive(data.totalEquity) =>
            /\ v.bookValuePerA = Infinity
            /\ v.bookValuePerB = Infinity
            /\ ShownPbr = Zero
            /\ HasBacktest(rev.app) =>
                 currentStatusInfo(rev.app, ShownPbr) = ZoneLabels(rev.app)[1]
       /\ IsZero(data.totalEquity) =>
            /\ v.bookValuePerA = NaN
            /\ v.bookValuePerB = NaN
            /\ ShownPbr = NaN

\* totalEquity 150 over no shares at a price of 150: the book values are
\* Infinity, the target price is rendered as "Infinity" and the PBR shown is 0
C17_Witness ==
  /\ StoredZeroShares
  /\ data.totalEquity = Num(150)
  /\ data.currentPrice = Num(150)
  /\ ~loading
  /\ error = Null
  /\ valuation(rev.app, data).bookValuePerB = Infinity
  /\ ShownPbr = Zero
  /\ targetPrice = <<"I", "n", "f", "i", "n", "i", "t", "y">>

\* the backtest request was answered with a body that could be parsed
BacktestSucceeded == BacktestSettled /\ lastCall.outcome = "ok"

\* C18: when the backtest request is answered with a parseable body,
\* backtestData is that body as it was sent, whether or not its series are as
\* long as its labels and its ROI figures match its series; nothing of it is
\* replaced by the fallback
C18_ParsedResultStoredUnchecked ==
  BacktestSucceeded =>
    /\ backtestData \in ResultBodies
    /\ backtestData = lastCall.result.value
    /\ backtestData # BacktestFallback(rev.svc, lastCall.arg)
    /\ ~backtestLoading

\* the stored result has three labels, one hold value, no strategy value and
\* a hold ROI of 999
C18_Witness ==
  /\ BacktestSucceeded
  /\ backtestData # Null
  /\ ~SeriesMatchLabels(backtestData)
  /\ Len(backtestData.labels) = 3
  /\ backtestData.holdValues = <<Num(100)>>
  /\ backtestData.strategyValues = << >>
  /\ backtestData.holdRoi = Num(999)

\* C19 as stated: as long as a request of fetchData is unanswered loading is
\* true, and as long as a backtest request is unanswered backtestLoading is true
C19_Original_HungRequestKeepsFlag ==
  /\ RefreshInFlight => loading
  /\ backtests # EmptyBag => backtestLoading

\* C19 amended: there is no timeout: loading turns false only in the step
\* that completes a fetchData invocation and backtestLoading only in a step
\* that completes a runBacktest invocation, so an unanswered fetchData request
\* keeps loading true; an unanswered backtest request keeps backtestLoading
\* true only until some other runBacktest invocation completes
C19_FlagsClearOnlyOnCompletion ==
  /\ [](RefreshInFlight => loading)
  /\ [][ /\ (loading /\ ~loading') =>
              /\ lastCall'.joined
              /\ lastCall'.fn \in {"fetchLatestBrkData", "fetchPbrDistribution"}
         /\ (backtestLoading /\ ~backtestLoading') =>
              /\ lastCall'.fn = "performBacktestAnalysis"
              /\ BagCardinality(backtests') = BagCardinality(backtests) - 1 ]_vars

\* a later run has completed and cleared backtestLoading while the request of
\* the run started before it is still unanswered
C19_Witness ==
  /\ BacktestSettled
  /\ ~lastCall.superseded
  /\ ~backtestLoading
  /\ BagCardinality(backtests) = 1
  /\ \A run \in BagToSet(backtests) : run.superseded

\* C20: in every fallback result that has a holdingTimeline, the timeline has
\* as many entries as labels and its i-th entry carries labels[i]
C20_TimelineFollowsLabels ==
  (BacktestFailed /\ "holdingTimeline" \in DOMAIN backtestData) =>
    /\ Len(backtestData.holdingTimeline) = Len(backtestData.labels)
    /\ \A i \in DOMAIN backtestData.holdingTimeline :
         backtestData.holdingTimeline[i].label = At(backtestData.labels, i)

\* C21: whenever the loading screen is not shown there is a snapshot to show:
\* loading = FALSE implies data is not null, so the view that dereferences
\* valuation and data never sees null
C21_NotLoadingHasData ==
  ~loading => (data # Null /\ valuation(rev.app, data) # Null)

\* a first load whose snapshot request failed has completed: the view is
\* shown and data is the fallback snapshot
C21_Witness ==
  /\ lastCall.joined
  /\ "fin" \in lastCall.failures
  /\ ~loading
  /\ fetches = << >>
  /\ data = SnapshotFallback

\* C22: at most one fetchData invocation is in flight at any time: fetchData
\* is started only when none is in flight (by the mount effect, once, or by
\* the refresh button, which is not rendered while loading), and the
\* invocation whose result is applied is the only one there is, so no
\* superseded refresh result is ever applied
C22_OneRefreshInFlight ==
  /\ [](Len(fetches) <= 1)
  /\ [][ /\ Len(fetches') > Len(fetches) => (fetches = << >> /\ (mounted => ~loading))
         /\ lastCall'.joined => (Len(fetches) = 1 /\ fetches' = << >>) ]_vars

\* the refresh button was clicked over a held snapshot: the one fetchData in
\* flight has both requests out and the loading screen hides the button
C22_Witness ==
  /\ mounted
  /\ HasRefreshButton(rev.app)
  /\ data # Null
  /\ loading
  /\ Len(fetches) = 1
  /\ fetches[1].fin.status = "pending"
  /\ ~fetches[1].joined

\* C23 as stated: in the revision whose run button is disabled while
\* backtestLoading, at most one backtest request is in flight and
\* backtestLoading = FALSE implies that none is
C23_Original_OneBacktestInFlight ==
  RunButtonDisabledWhileLoading(rev.app) =>
    /\ BagCardinality(backtests) <= 1
    /\ ~backtestLoading => backtests = EmptyBag

\* C23 amended: in that revision the run button starts a run only while
\* backtestLoading is false, and backtestLoading = TRUE implies that a
\* backtest request is in flight; a run that starts while backtestLoading is
\* true is started by the tab effect, on a change to the backtest tab while
\* backtestData is null (so more than one request can be in flight, and
\* backtestLoading turns false when the first of them completes)
C23_OnlyTheRunButtonWaits ==
  /\ []((RunButtonDisabledWhileLoading(rev.app) /\ backtestLoading) => backtests # EmptyBag)
  /\ [][ ( /\ RunButtonDisabledWhileLoading(rev.app)
           /\ BagCardinality(backtests') > BagCardinality(backtests)
           /\ backtestLoading )
         => ( /\ activeTab # "backtest"
              /\ activeTab' = "backtest"
              /\ backtestData = Null ) ]_vars

\* the backtest tab was left and entered again before the first result came:
\* two requests are in flight in the revision with the disabled run button
C23_Witness ==
  /\ RunButtonDisabledWhileLoading(rev.app)
  /\ activeTab = "backtest"
  /\ backtestData = Null
  /\ backtestLoading
  /\ BagCardinality(backtests) = 2

\* C24: a step that changes activeTab to "backtest" while backtestData is null
\* starts one runBacktest, with the current initialCapital, and sets
\* backtestLoading; a step that changes activeTab to "calc", or to "backtest"
\* while backtestData is not null, starts no request and leaves
\* backtestLoading as it was
C24_TabEffectRunsIffNoResult ==
  [][ activeTab' # activeTab =>
        IF activeTab' = "backtest" /\ backtestData = Null
        THEN /\ backtests' = Supersede(backtests)
                               (+) SetToBag({[capital |-> initialCapital,
                                              superseded |-> FALSE, requests |-> 1]})
             /\ backtestLoading'
             /\ fetches' = fetches
        ELSE /\ backtests' = backtests
             /\ backtestLoading' = backtestLoading
             /\ fetches' = fetches ]_vars

\* the backtest tab was entered for the first time in the revision whose run
\* button is disabled while backtestLoading: the one run in flight is the one
\* the tab effect started
C24_Witness ==
  /\ RunButtonDisabledWhileLoading(rev.app)
  /\ activeTab = "backtest"
  /\ backtestData = Null
  /\ backtestLoading
  /\ backtests = SetToBag({[capital |-> initialCapital, superseded |-> FALSE, requests |-> 1]})
  /\ lastCall = NoCall

\* C25: no step takes data from a snapshot back to null, and no step takes
\* backtestData from a result back to null; so once a result is stored, a
\* change of the tab never starts a backtest
C25_StoredValuesStay ==
  [][ /\ data # Null => data' # Null
      /\ backtestData # Null => backtestData' # Null
      /\ (backtestData # Null /\ activeTab' # activeTab) =>
           (backtests' = backtests /\ backtestLoading' = backtestLoading) ]_vars

\* in the golden-split revision the recommended buy PBR of the fallback result
\* was copied to the slider in the valuation view and the backtest tab was
\* entered again: the result is still there and no run was started
C25_Witness ==
  /\ rev.app = "AppGolden"
  /\ activeTab = "backtest"
  /\ data # Null
  /\ backtestData # Null
  /\ customPbr = Dec(145, 2)
  /\ customPbr # InitialCustomPbr(rev.app)
  /\ backtests = EmptyBag
  /\ ~backtestLoading
  /\ lastCall = NoCall

\* the step starts a fetchData invocation or answers one of its requests
RefreshStep ==
  \/ Len(fetches') > Len(fetches)
  \/ lastCall'.fn \in {"fetchLatestBrkData", "fetchPbrDistribution"}

\* the step answers the request of a runBacktest invocation, or starts one
\* from the run button (the tab stays) or from the tab effect
RunBacktestStep ==
  \/ BagCardinality(backtests') > BagCardinality(backtests)
  \/ lastCall'.fn = "performBacktestAnalysis"

\* the step edits the initial capital or the PBR slider
EditStep == initialCapital' # initialCapital \/ customPbr' # customPbr

\* C26: a step of fetchData leaves backtestData, backtestLoading,
\* initialCapital, customPbr and activeTab as they were; a step of runBacktest
\* leaves data, distributionData and loading as they were; a step that edits
\* initialCapital or customPbr leaves data and backtestData as they were and
\* starts no request
C26_Frame ==
  [][ /\ RefreshStep =>
           UNCHANGED <<backtestData, backtestLoading, initialCapital, customPbr, activeTab, backtests>>
      /\ RunBacktestStep =>
           UNCHANGED <<data, distributionData, loading, fetches>>
      /\ EditStep =>
           UNCHANGED <<data, backtestData, distributionData, fetches, backtests,
                       loading, backtestLoading>> ]_vars

\* a run started with capital 10000 fell back; the capital is now 50000 and
\* the slider has been moved, the stored result is still the one for 10000 and
\* no request is out
C26_Witness ==
  /\ data # Null
  /\ backtestData = BacktestFallback(rev.svc, 10000)
  /\ initialCapital = 50000
  /\ customPbr = Dec(15, 1)
  /\ customPbr # InitialCustomPbr(rev.app)
  /\ fetches = << >>
  /\ backtests = EmptyBag
  /\ lastCall = NoCall

\* the value series a result carries
ValueSeries(bd) == {"holdValues", "qqqHoldValues", "strategyValues"} \cap DOMAIN bd

\* C27: in the fallback result of every service revision each value series
\* (holdValues, strategyValues and, where present, qqqHoldValues) is exactly as
\* long as labels; the chart of the fallback result that is stored has one row
\* per label and no row with a missing value
C27_FallbackSeriesMatchLabels ==
  BacktestFailed =>
    /\ \A svc \in SvcRevs :
         LET fb == BacktestFallback(svc, lastCall.arg)
         IN /\ {"holdValues", "strategyValues"} \subseteq ValueSeries(fb)
            /\ \A f \in ValueSeries(fb) : Len(fb[f]) = Len(fb.labels)
    /\ backtestData = BacktestFallback(rev.svc, lastCall.arg)
    /\ Len(ChartRows) = Len(backtestData.labels)
    /\ \A i \in DOMAIN ChartRows :
         \A col \in {"BRKHold", "QQQHold", "Strategy"} :
           /\ ChartRows[i][col].k # "undefined"
           /\ IsFinite(ChartRows[i][col])

\* the rotation revision fell back for a capital of 50000: six rows, the last
\* strategy value 50000 * 2.95
C27_Witness ==
  /\ BacktestFailed
  /\ rev.svc = "Svc152_157"
  /\ lastCall.arg = 50000
  /\ Len(backtestData.labels) = 6
  /\ Len(ChartRows) = 6
  /\ ChartRows[6].Strategy = Num(147500)
  /\ ChartRows[6].year = "2025"

\* the growth of a series from its first to its last value as a percentage,
\* (last / first - 1) * 100
SeriesRoi(series) ==
  Mul(Sub(Div(series[Len(series)], series[1]), Num(1)), Num(100))

\* a series the growth of which is a number
HasGrowth(series) ==
  /\ Len(series) > 0
  /\ Positive(series[1])
  /\ IsFinite(series[Len(series)])

\* r is the growth of the series
IsRoiOf(r, series) ==
  /\ HasGrowth(series)
  /\ r = SeriesRoi(series)

\* r is the growth of the series when both are rounded to six decimal places
IsRoundedRoiOf(r, series) ==
  /\ HasGrowth(series)
  /\ IsFinite(r)
  /\ ToFixed(r, 6) = ToFixed(SeriesRoi(series), 6)

\* C28 as stated: in the fallback result of every service revision, for the
\* (positive) capital the run was started with, holdRoi, strategyRoi and,
\* where present, qqqRoi equal (last value / first value - 1) * 100 of
\* holdValues, strategyValues and qqqHoldValues
C28_Original_FallbackRoiEqualsSeriesGrowth ==
  BacktestFailed =>
    /\ lastCall.arg > 0
    /\ \A svc \in SvcRevs :
         LET fb == BacktestFallback(svc, lastCall.arg)
         IN /\ IsRoiOf(fb.holdRoi, fb.holdValues)
            /\ IsRoiOf(fb.strategyRoi, fb.strategyValues)
            /\ "qqqHoldValues" \in DOMAIN fb => IsRoiOf(fb.qqqRoi, fb.qqqHoldValues)

\* C28 amended: in the fallback result of every service revision, for the
\* (positive) capital the run was started with, holdRoi, strategyRoi and,
\* where present, qqqRoi agree with (last value / first value - 1) * 100 of
\* holdValues, strategyValues and qqqHoldValues to six decimal places
C28_FallbackRoiMatchesSeries ==
  BacktestFailed =>
    /\ lastCall.arg > 0
    /\ \A svc \in SvcRevs :
         LET fb == BacktestFallback(svc, lastCall.arg)
         IN /\ IsRoundedRoiOf(fb.holdRoi, fb.holdValues)
            /\ IsRoundedRoiOf(fb.strategyRoi, fb.strategyValues)
            /\ "qqqHoldValues" \in DOMAIN fb => IsRoundedRoiOf(fb.qqqRoi, fb.qqqHoldValues)
    /\ IsRoundedRoiOf(backtestData.holdRoi, backtestData.holdValues)
    /\ IsRoundedRoiOf(backtestData.qqqRoi, backtestData.qqqHoldValues)
    /\ IsRoundedRoiOf(backtestData.strategyRoi, backtestData.strategyValues)

\* the high-frequency revision fell back for a capital of 50000: the strategy
\* series runs from 50000 to 157500 and strategyRoi is 215, its growth; the
\* hold series ends one unit in the last place below 102500 and its growth is
\* not the 105 of holdRoi, but rounds to it
C28_Witness ==
  /\ BacktestFailed
  /\ rev.svc = "Svc147_152"
  /\ lastCall.arg = 50000
  /\ backtestData.strategyValues[1] = Num(50000)
  /\ backtestData.strategyValues[6] = Num(157500)
  /\ backtestData.strategyRoi = Num(215)
  /\ SeriesRoi(backtestData.strategyValues) = Num(215)
  /\ backtestData.holdRoi = Num(105)
  /\ Less(backtestData.holdValues[6], Num(102500))
  /\ SeriesRoi(backtestData.holdValues) # Num(105)
  /\ ToFixed(SeriesRoi(backtestData.holdValues), 6) = <<"1", "0", "5", ".", "0", "0", "0", "0", "0", "0">>

\* the number of positions at which consecutive entries of a holding timeline
\* hold different assets
Transitions(timeline) ==
  Cardinality({i \in 1..(Len(timeline) - 1) : timeline[i].asset # timeline[i + 1].asset})

\* C29: in every fallback result that has a holdingTimeline, numTrades is the
\* number of positions at which consecutive timeline entries hold different
\* assets
C29_TradesMatchTimeline ==
  (BacktestFailed /\ "holdingTimeline" \in DOMAIN backtestData) =>
    backtestData.numTrades = Transitions(backtestData.holdingTimeline)

====
